---------------------------- MODULE Spec2Model ----------------------------
(***************************************************************************)
(* A model of the configuration store of the Thinkube AI integration      *)
(* extension: ClaudeConfigService (settings.json with hooks, permissions  *)
(* and MCP servers; command, skill and agent files), its change           *)
(* notification, the configuration tree that subscribes to it and the     *)
(* command handlers of the extension that call it.                        *)
(*                                                                         *)
(* Every service method is async.  A method runs synchronously up to its  *)
(* next await, so each action below is one such synchronous stretch of    *)
(* one call; the calls in flight are the tasks.  The file reads and       *)
(* writes are synchronous (fs.*Sync), hence atomic within a stretch.      *)
(***************************************************************************)
EXTENDS Naturals, Sequences, FiniteSets

VARIABLES
    settingsFile,   \* <base>/.claude/settings.json: [exists, doc]
    commands,       \* <base>/.claude/commands/<file>.md: file stem -> text
    skills,         \* <base>/.claude/skills/<dir>/SKILL.md: dir -> text
    agents,         \* <base>/.claude/agents/<file>.md: file stem -> text
    task,           \* the calls in flight: task -> its position and locals
    calls,          \* history: the calls in start order, with their outcome
    notifyCount,    \* number of _onConfigChanged.fire calls so far
    lastEvent       \* the last notification: its snapshot, and the disk then

vars == <<settingsFile, commands, skills, agents, task, calls, notifyCount, lastEvent>>

----------------------------------------------------------------------------
(* Bounds of the model *)

MaxCalls == 2
MaxHookCalls == 3
MaxPermCalls == 3
MaxArtifactCalls == 3
MaxNameLen == 3
MaxContentLen == 2
MaxCreates == 1
MaxBucketLen == 2
MaxLines == 4
MaxTreeCalls == 4

\* The calls in flight: one call and one that overlaps it.
Tasks == {1, 2}

----------------------------------------------------------------------------
(* Input domains.  Strings whose characters matter (names, matchers,      *)
(* commands of hooks) are sequences of one-character strings.             *)

HookEvents == {"PreToolUse", "PostToolUse"}

Matchers == { <<"E">>, <<"E", "-", "x">> }

HookCommands == { <<"x">>, <<"x", "-", "x">> }

Buckets == {"allow", "deny", "ask"}

Patterns == {"A", "B"}

ServerIds == {"s1", "s2"}

ServerConfigs == {"npx", "node"}

Kinds == {"command", "skill", "agent"}

Names == { <<"F", "o">>, <<"f", "o">>, <<"a", " ", "b">> }

Descriptions == { <<"d", "1">>, <<"d", "2">> }

\* The content the callers of this model pass to createCommand, createSkill and
\* createAgent.
DefaultContent == << "c" >>

----------------------------------------------------------------------------
(* Sequence helpers *)

SeqToSet(s) == { s[i] : i \in 1..Len(s) }

Includes(s, x) == \E i \in 1..Len(s) : s[i] = x

Count(s, x) == Cardinality({ i \in 1..Len(s) : s[i] = x })

NoDuplicates(s) == \A i, j \in 1..Len(s) : s[i] = s[j] => i = j

----------------------------------------------------------------------------
(* The settings document (models/ClaudeConfig) *)

\* An object with no key: the empty map of server ids to configurations.
NoServers == [ id \in {} |-> "npx" ]

\* A settings object.  `absent` names the keys the object does not have (hooks,
\* PreToolUse, PostToolUse, permissions, allow, deny, ask, mcpServers); the
\* field of an absent key holds the empty value.  `isNull` tells the value
\* JSON.parse returns for the text `null`, which has no key at all.  `unknown`
\* holds the top-level keys that ClaudeSettings does not declare.
createDefaultSettings ==
    [ hooks       |-> [ PreToolUse |-> << >>, PostToolUse |-> << >> ],
      permissions |-> [ allow |-> << >>, deny |-> << >>, ask |-> << >> ],
      mcpServers  |-> NoServers,
      absent      |-> {},
      isNull      |-> FALSE,
      unknown     |-> {} ]

\* settings.json: whether it exists, whether JSON.parse accepts its text, and
\* the value JSON.parse returns.
SettingsFile(doc) == [ exists |-> TRUE, parses |-> TRUE, doc |-> doc ]

NoSettingsFile == [ exists |-> FALSE, parses |-> FALSE, doc |-> createDefaultSettings ]

\* loadConfig: the default settings, replaced by the parsed file if it exists
\* and JSON.parse does not throw.
loadConfig(file) ==
    IF file.exists /\ file.parses THEN file.doc ELSE createDefaultSettings

\* The keys a settings object lacks among `keys`.
Lacks(settings, keys) == settings.absent \cap keys # {}

\* The settings object once the code has assigned the keys `keys`.
Assigned(settings, keys) == [ settings EXCEPT !.absent = @ \ keys ]

----------------------------------------------------------------------------
(* Hooks (models/Hook, ClaudeConfigService "Hooks") *)

\* The id getHooks gives a hook: `${event}-${matcher.matcher}-${hookDef.command}`.
HookId(event, matcher, command) == <<event>> \o <<"-">> \o matcher \o <<"-">> \o command

\* The ids a caller can hold for the hooks of one event.
HookIds(event) == { HookId(event, m, c) : m \in Matchers, c \in HookCommands }

\* processHooks: one Hook per action of one matcher group, in order.
GroupHooks(event, group) ==
    [ i \in 1..Len(group.hooks) |->
        [ id      |-> HookId(event, group.matcher, group.hooks[i].command),
          event   |-> event,
          matcher |-> group.matcher,
          command |-> group.hooks[i].command ] ]

RECURSIVE ProcessHooks(_, _)
ProcessHooks(event, matchers) ==
    IF matchers = << >> THEN << >>
    ELSE GroupHooks(event, Head(matchers)) \o ProcessHooks(event, Tail(matchers))

\* getHooks(eventFilter): the hooks of that event, flattened.
getHooks(settings, eventFilter) == ProcessHooks(eventFilter, settings.hooks[eventFilter])

NewHookDef(command) == [ type |-> "command", command |-> command ]

\* Array.prototype.find / findIndex: the first of the indexes `hits` whose
\* elements satisfy the test, 0 if there is none.
FindIndex(hits) ==
    IF hits = {} THEN 0 ELSE CHOOSE i \in hits : \A j \in hits : i <= j

\* Mutant: addHook without its search for the matcher's group.
AddHookSettings_AlwaysPush(settings, event, matcher, command) ==
    [ settings EXCEPT !.hooks[event] =
        Append(@, [ matcher |-> matcher, hooks |-> <<NewHookDef(command)>> ]) ]

\* Mutant: addHook that puts the action first in the group it finds.
AddHookSettings_Unshift(settings, event, matcher, command) ==
    LET matchers == settings.hooks[event]
        at == FindIndex({ i \in 1..Len(matchers) : matchers[i].matcher = matcher })
    IN  [ settings EXCEPT !.hooks[event] =
            IF at > 0
            THEN [ matchers EXCEPT ![at].hooks = <<NewHookDef(command)>> \o @ ]
            ELSE Append(matchers, [ matcher |-> matcher, hooks |-> <<NewHookDef(command)>> ]) ]

\* addHook, between its read and its save: give the settings a hooks object and
\* the hooks a list for the event if they lack one, then push the action onto
\* the first group of that matcher, or push a new group.
AddHookSettings(settings, event, matcher, command) ==
    LET matchers == settings.hooks[event]
        at == FindIndex({ i \in 1..Len(matchers) : matchers[i].matcher = matcher })
        pushed ==
            IF at > 0
            THEN [ matchers EXCEPT ![at].hooks = Append(@, NewHookDef(command)) ]
            ELSE Append(matchers, [ matcher |-> matcher, hooks |-> <<NewHookDef(command)>> ])
    IN  Assigned([ settings EXCEPT !.hooks[event] = pushed ],
                 IF Lacks(settings, {"hooks"}) THEN {"hooks"} \cup HookEvents ELSE {event})

\* deleteHook: hooks.find(h => h.id === hookId) resolves the id or not.
HookResolves(hooks, hookId) == \E i \in 1..Len(hooks) : hooks[i].id = hookId

\* deleteHook, between its reads and its save: in every group of the found hook's
\* matcher drop the actions with its command, then drop the empty groups.
DeleteHookSettings(settings, hooks, event, hookId) ==
    LET hookToDelete == hooks[FindIndex({ i \in 1..Len(hooks) : hooks[i].id = hookId })]
        matchers == settings.hooks[event]
        OtherCommand(h) == h.command # hookToDelete.command
        filtered ==
            [ i \in 1..Len(matchers) |->
                IF matchers[i].matcher = hookToDelete.matcher
                THEN [ matchers[i] EXCEPT !.hooks = SelectSeq(@, OtherCommand) ]
                ELSE matchers[i] ]
        NonEmpty(m) == Len(m.hooks) > 0
    IN  [ settings EXCEPT !.hooks[event] = SelectSeq(filtered, NonEmpty) ]

----------------------------------------------------------------------------
(* Permissions (ClaudeConfigService "Permissions") *)

\* The keys of a permissions object.
PermissionKeys == {"permissions"} \cup Buckets

\* getPermissions: config.settings.permissions || { allow: [], deny: [], ask: [] }
getPermissions(settings) == settings.permissions

SetPermissionsSettings(settings, permissions) ==
    Assigned([ settings EXCEPT !.permissions = permissions ], PermissionKeys)

\* addPermission and removePermission read permissions[type] of a permissions
\* object that has no such bucket: a TypeError.
PermissionThrows(settings, type) ==
    ~Lacks(settings, {"permissions"}) /\ Lacks(settings, {type})

\* addPermission: a permissions object with three empty buckets if there is
\* none, then the push unless the rule is included.
AddPermissionSettings(settings, type, rule) ==
    LET ensured == IF Lacks(settings, {"permissions"})
                   THEN Assigned(settings, PermissionKeys) ELSE settings
    IN  IF Includes(ensured.permissions[type], rule)
        THEN ensured
        ELSE [ ensured EXCEPT !.permissions[type] = Append(@, rule) ]

\* removePermission: the filter, if there is a permissions object.
RemovePermissionSettings(settings, type, rule) ==
    LET Other(r) == r # rule
    IN  IF Lacks(settings, {"permissions"}) THEN settings
        ELSE [ settings EXCEPT !.permissions[type] = SelectSeq(@, Other) ]

----------------------------------------------------------------------------
(* MCP servers (ClaudeConfigService "MCP Servers") *)

AddMcpServerSettings(settings, id, serverConfig) ==
    Assigned([ settings EXCEPT !.mcpServers =
                [ k \in (DOMAIN @) \cup {id} |-> IF k = id THEN serverConfig ELSE @[k] ] ],
             {"mcpServers"})

HasMcpServer(settings, id) == id \in DOMAIN settings.mcpServers

RemoveMcpServerSettings(settings, id) ==
    [ settings EXCEPT !.mcpServers = [ k \in (DOMAIN @) \ {id} |-> @[k] ] ]

----------------------------------------------------------------------------
(* Names (models/Command, models/Skill, models/Agent) *)

UpperCase == << "A", "B", "C", "D", "E", "F", "G", "H", "I", "J", "K", "L", "M",
                "N", "O", "P", "Q", "R", "S", "T", "U", "V", "W", "X", "Y", "Z" >>

LowerCase == << "a", "b", "c", "d", "e", "f", "g", "h", "i", "j", "k", "l", "m",
                "n", "o", "p", "q", "r", "s", "t", "u", "v", "w", "x", "y", "z" >>

Digits == { "0", "1", "2", "3", "4", "5", "6", "7", "8", "9" }

\* String.prototype.toLowerCase, one character.
ToLowerChar(c) ==
    IF \E i \in 1..Len(UpperCase) : UpperCase[i] = c
    THEN LowerCase[CHOOSE i \in 1..Len(UpperCase) : UpperCase[i] = c]
    ELSE c

toLowerCase(name) == [ i \in 1..Len(name) |-> ToLowerChar(name[i]) ]

\* replace(/[^a-z0-9-]/g, '-')
ReplaceDisallowed(name) ==
    [ i \in 1..Len(name) |->
        IF name[i] \in SeqToSet(LowerCase) \cup Digits \cup {"-"} THEN name[i] ELSE "-" ]

\* replace(/-+/g, '-')
RECURSIVE CollapseHyphens(_)
CollapseHyphens(name) ==
    IF Len(name) < 2 THEN name
    ELSE IF name[1] = "-" /\ name[2] = "-" THEN CollapseHyphens(Tail(name))
    ELSE <<name[1]>> \o CollapseHyphens(Tail(name))

normalizeSkillName(name) == CollapseHyphens(ReplaceDisallowed(toLowerCase(name)))

normalizeAgentName(name) == CollapseHyphens(ReplaceDisallowed(toLowerCase(name)))

\* Mutant: normalizeCommandName that drops a leading hyphen, not a leading slash.
normalizeCommandName_StripHyphen(name) ==
    LET bare == IF Len(name) > 0 /\ name[1] = "-" THEN Tail(name) ELSE name
    IN  CollapseHyphens(ReplaceDisallowed(toLowerCase(bare)))

\* normalizeCommandName drops one leading slash first.
normalizeCommandName(name) ==
    LET bare == IF Len(name) > 0 /\ name[1] = "/" THEN Tail(name) ELSE name
    IN  CollapseHyphens(ReplaceDisallowed(toLowerCase(bare)))

\* The normalizer of each artifact kind.
Normalize(kind, name) ==
    CASE kind = "command" -> normalizeCommandName(name)
      [] kind = "skill"   -> normalizeSkillName(name)
      [] kind = "agent"   -> normalizeAgentName(name)

\* String.prototype.trim, for the whitespace of the model: the space and the
\* line feed.
Whitespace == { " ", "LF" }

RECURSIVE TrimLeft(_)
TrimLeft(s) == IF s # << >> /\ Head(s) \in Whitespace THEN TrimLeft(Tail(s)) ELSE s

RECURSIVE TrimRight(_)
TrimRight(s) ==
    IF s # << >> /\ s[Len(s)] \in Whitespace
    THEN TrimRight(SubSeq(s, 1, Len(s) - 1)) ELSE s

Trim(s) == TrimRight(TrimLeft(s))

----------------------------------------------------------------------------
(* Artifact files (commandToMarkdown, skillToMarkdown, agentToMarkdown and     *)
(* their parsers).  A text is the lines between its two `---` lines and the    *)
(* body after them; a line is a sequence of characters in which a key is one   *)
(* character, and " " stands for any whitespace.                               *)

NoFiles == [ f \in {} |-> [ framed |-> FALSE, header |-> << >>, body |-> << >> ] ]

\* `${key}: ${value}`
HeaderLine(key, value) == <<key, ":", " ">> \o value

\* tools.join(', ')
RECURSIVE JoinTools(_)
JoinTools(tools) ==
    IF tools = << >> THEN << >>
    ELSE IF Len(tools) = 1 THEN tools[1]
    ELSE tools[1] \o <<",", " ">> \o JoinTools(Tail(tools))

\* The optional lines `tools: ...` and `model: ...` of a skill or an agent.
ToolsAndModelLines(artifact) ==
    (IF Len(artifact.tools) > 0
     THEN << HeaderLine("tools", JoinTools(artifact.tools)) >> ELSE << >>)
    \o (IF artifact.model # <<"inherit">>
        THEN << HeaderLine("model", artifact.model) >> ELSE << >>)

\* commandToMarkdown: description, argument-hint if there is a non-empty one
\* (an argumentHint is << >>, undefined, or <<hint>>), then the content.
commandToMarkdown(command) ==
    [ framed |-> TRUE,
      header |-> << HeaderLine("description", command.description) >>
                 \o (IF command.argumentHint # << >> /\ command.argumentHint[1] # << >>
                     THEN << HeaderLine("argument-hint", command.argumentHint[1]) >>
                     ELSE << >>),
      body   |-> command.content ]

skillToMarkdown(skill) ==
    [ framed |-> TRUE,
      header |-> << HeaderLine("name", skill.name),
                    HeaderLine("description", skill.description) >>
                 \o ToolsAndModelLines(skill),
      body   |-> skill.content ]

agentToMarkdown(agent) ==
    [ framed |-> TRUE,
      header |-> << HeaderLine("name", agent.name),
                    HeaderLine("description", agent.description) >>
                 \o ToolsAndModelLines(agent),
      body   |-> agent.content ]

\* line.match(/^([^:]+):\s*(.*)$/): the place of the first colon, which must
\* have a character before it.
ColonAt(line) == FindIndex({ i \in 1..Len(line) : line[i] = ":" })

LineMatches(line) == ColonAt(line) > 1

LineKey(line) == Trim(SubSeq(line, 1, ColonAt(line) - 1))

LineValue(line) == Trim(SubSeq(line, ColonAt(line) + 1, Len(line)))

\* The lines of a header that set metadata[key].
LinesOf(header, key) ==
    { i \in 1..Len(header) : LineMatches(header[i]) /\ LineKey(header[i]) = <<key>> }

\* metadata[key] || '': the value of the last line that sets the key.
Metadata(header, key) ==
    LET hits == LinesOf(header, key)
    IN  IF hits = {} THEN << >>
        ELSE LineValue(header[CHOOSE i \in hits : \A j \in hits : j <= i])

\* value.split(',')
RECURSIVE SplitComma(_)
SplitComma(value) ==
    LET at == FindIndex({ i \in 1..Len(value) : value[i] = "," })
    IN  IF at = 0 THEN << value >>
        ELSE << SubSeq(value, 1, at - 1) >> \o SplitComma(SubSeq(value, at + 1, Len(value)))

\* metadata['tools'] ? metadata['tools'].split(',').map(t => t.trim()) : []
ParseTools(header) ==
    LET value == Metadata(header, "tools")
        parts == SplitComma(value)
    IN  IF value = << >> THEN << >> ELSE [ i \in 1..Len(parts) |-> Trim(parts[i]) ]

\* metadata['model'] || 'inherit'
ParseModel(header) ==
    IF Metadata(header, "model") = << >> THEN <<"inherit">> ELSE Metadata(header, "model")

\* filePath.split('/').pop()?.replace('.md', ''): the file's name without the
\* first '.md' in it.  A file is known by its name without the extension; the
\* three characters '.md' inside a name are one element of the sequence.
ReplaceMd(fileName) ==
    LET at == FindIndex({ i \in 1..Len(fileName) : fileName[i] = ".md" })
    IN  IF at = 0 THEN fileName
        ELSE SubSeq(fileName, 1, at - 1) \o SubSeq(fileName, at + 1, Len(fileName))

StemName(file) == ReplaceMd(file \o <<".md">>)

\* parseCommandMarkdown of a text with a frontmatter: the name comes from the
\* file's name, whatever the header holds.
parseCommandMarkdown(text, file) ==
    [ name         |-> StemName(file),
      description  |-> Metadata(text.header, "description"),
      argumentHint |-> IF LinesOf(text.header, "argument-hint") = {} THEN << >>
                       ELSE << Metadata(text.header, "argument-hint") >>,
      content      |-> Trim(text.body),
      filePath     |-> file ]

\* parseSkillMarkdown: metadata['name'] || the directory's name.
parseSkillMarkdown(text, dir) ==
    [ name        |-> IF Metadata(text.header, "name") # << >>
                      THEN Metadata(text.header, "name") ELSE dir,
      description |-> Metadata(text.header, "description"),
      tools       |-> ParseTools(text.header),
      model       |-> ParseModel(text.header),
      content     |-> Trim(text.body),
      filePath    |-> dir ]

\* parseAgentMarkdown: metadata['name'] || the name of the file without '.md'.
parseAgentMarkdown(text, file) ==
    [ name        |-> IF Metadata(text.header, "name") # << >>
                      THEN Metadata(text.header, "name") ELSE StemName(file),
      description |-> Metadata(text.header, "description"),
      tools       |-> ParseTools(text.header),
      model       |-> ParseModel(text.header),
      content     |-> Trim(text.body),
      filePath    |-> file ]

\* The line `---`.
Delimiter == <<"-", "-", "-">>

\* The lines joined by line feeds.
RECURSIVE JoinLines(_)
JoinLines(lines) ==
    IF lines = << >> THEN << >>
    ELSE IF Len(lines) = 1 THEN lines[1]
    ELSE lines[1] \o <<"LF">> \o JoinLines(Tail(lines))

\* content.match(/^---\n([\s\S]*?)\n---\n([\s\S]*)$/) on a text given by its
\* lines: the first line is `---`, and the frontmatter ends before the first
\* line `---` from the third line on that has a line after it.
ClosingAt(lines) ==
    FindIndex({ j \in 3..(Len(lines) - 1) : lines[j] = Delimiter })

\* A text given by its lines as the parsers see it: whether the expression
\* matches, the lines of the frontmatter and the body.
FromLines(lines) ==
    IF lines # << >> /\ lines[1] = Delimiter /\ ClosingAt(lines) > 0
    THEN [ framed |-> TRUE,
           header |-> SubSeq(lines, 2, ClosingAt(lines) - 1),
           body   |-> JoinLines(SubSeq(lines, ClosingAt(lines) + 1, Len(lines))),
           lines  |-> lines ]
    ELSE [ framed |-> FALSE, header |-> << >>, body |-> << >>, lines |-> lines ]

\* The files whose text has a frontmatter; the parsers return null for the
\* others and the lists skip them.
Framed(files) == { f \in DOMAIN files : files[f].framed }

getCommands(files) == { parseCommandMarkdown(files[f], f) : f \in Framed(files) }

getSkills(files) == { parseSkillMarkdown(files[f], f) : f \in Framed(files) }

getAgents(files) == { parseAgentMarkdown(files[f], f) : f \in Framed(files) }

\* Write one file: fs.writeFileSync creates it or replaces its text.
WriteFile(files, f, text) ==
    [ k \in (DOMAIN files) \cup {f} |-> IF k = f THEN text ELSE files[k] ]

\* fs.unlinkSync, fs.rmSync
RemoveFile(files, f) == [ k \in (DOMAIN files) \ {f} |-> files[k] ]

----------------------------------------------------------------------------
(* The state *)

\* What is persisted under the project's base path.
Disk == [ settingsFile |-> settingsFile, commands |-> commands,
          skills |-> skills, agents |-> agents ]

IdleTask ==
    [ pc |-> "idle", entry |-> "api", op |-> "none", arg |-> << >>, idx |-> 0,
      cfg |-> createDefaultSettings, aux |-> << >> ]

\* A settings document a project can hold before the first call of a behaviour:
\* one hook and one permission rule, as addHook and addPermission leave them.
ConfiguredSettings ==
    [ createDefaultSettings EXCEPT
        !.hooks.PostToolUse = << [ matcher |-> <<"E">>, hooks |-> << NewHookDef(<<"x">>) >> ] >>,
        !.permissions.allow = << "A" >> ]

InitialFiles == { NoSettingsFile, SettingsFile(ConfiguredSettings) }

Init ==
    /\ settingsFile \in InitialFiles
    /\ commands = NoFiles
    /\ skills = NoFiles
    /\ agents = NoFiles
    /\ task = [ t \in Tasks |-> IdleTask ]
    /\ calls = << >>
    /\ notifyCount = 0
    /\ lastEvent = [ snapshot |-> createDefaultSettings, persisted |-> createDefaultSettings ]

Idle(t) == task[t].pc = "idle"

At(t, pc) == task[t].pc = pc

\* The writes of settings.json made so far.
SettingsWrites == Cardinality({ i \in 1..Len(calls) : calls[i].wroteAt > 0 })

\* A call starts: it runs to its first await, having read `cfg` (getConfig reads
\* settings.json synchronously when it is called).  The tasks are interchangeable
\* slots for the calls in flight; a call takes the lowest idle one.
\* Mutant: a service that starts a call from the configuration it last notified.
BeginWith_Cached(t, entry, op, arg, pc, w, f) ==
    /\ Idle(t)
    /\ \A u \in Tasks : u < t => ~Idle(u)
    /\ task' = [ task EXCEPT ![t] =
                    [ pc |-> pc, entry |-> entry, op |-> op, arg |-> arg,
                      idx |-> Len(calls) + 1, cfg |-> IF notifyCount > 0 THEN lastEvent.snapshot
                                       ELSE loadConfig(settingsFile),
                      aux |-> << >> ] ]
    /\ calls' = Append(calls,
                    [ op |-> op, arg |-> arg, entry |-> entry, status |-> "running",
                      writes |-> w, fired |-> f, refreshed |-> f,
                      wroteAt |-> IF w > 0 THEN SettingsWrites + 1 ELSE 0,
                      result |-> << >>,
                      pre |-> Disk, post |-> Disk ])

BeginWith(t, entry, op, arg, pc, w, f) ==
    /\ Idle(t)
    /\ \A u \in Tasks : u < t => ~Idle(u)
    /\ task' = [ task EXCEPT ![t] =
                    [ pc |-> pc, entry |-> entry, op |-> op, arg |-> arg,
                      idx |-> Len(calls) + 1, cfg |-> loadConfig(settingsFile),
                      aux |-> << >> ] ]
    /\ calls' = Append(calls,
                    [ op |-> op, arg |-> arg, entry |-> entry, status |-> "running",
                      writes |-> w, fired |-> f, refreshed |-> f,
                      wroteAt |-> IF w > 0 THEN SettingsWrites + 1 ELSE 0,
                      result |-> << >>,
                      pre |-> Disk, post |-> Disk ])

Begin(t, entry, op, arg, pc) == BeginWith(t, entry, op, arg, pc, 0, 0)

\* History of the call of task t: w writes, f notifications (the configuration
\* tree's subscription refreshes the tree once per notification).
Note(t, w, f) ==
    calls' = [ calls EXCEPT ![task[t].idx].writes = @ + w,
                            ![task[t].idx].fired = @ + f,
                            ![task[t].idx].refreshed = @ + f ]

\* History of a write of settings.json by the call of task t: its place among
\* the writes.
NoteSettingsWrite(t) ==
    calls' = [ calls EXCEPT ![task[t].idx].writes = @ + 1,
                            ![task[t].idx].wroteAt = SettingsWrites + 1 ]

\* _onConfigChanged.fire(config)
\* (`file` is settings.json as it is when the subscribers run)
Notify(snapshot, file) ==
    /\ notifyCount' = notifyCount + 1
    /\ lastEvent' = [ snapshot |-> snapshot, persisted |-> loadConfig(file) ]

\* Mutant: saveSettings that keeps the hooks another call persisted for the
\* phases its own document leaves empty.
SaveSettings_Merge(t, settings) ==
    /\ settingsFile' =
            SettingsFile([ settings EXCEPT !.hooks =
                            [ e \in HookEvents |->
                                IF settings.hooks[e] = << >>
                                THEN loadConfig(settingsFile).hooks[e]
                                ELSE settings.hooks[e] ] ])
    /\ task' = [ task EXCEPT ![t].pc = "fire", ![t].cfg = loadConfig(settingsFile'),
                             ![t].arg = << >>, ![t].aux = << >> ]
    /\ NoteSettingsWrite(t)
    /\ UNCHANGED <<commands, skills, agents, notifyCount, lastEvent>>

\* saveSettings up to its await: write the whole document, then load it again.
SaveSettings(t, settings) ==
    /\ settingsFile' = SettingsFile(settings)
    /\ task' = [ task EXCEPT ![t].pc = "fire", ![t].cfg = loadConfig(settingsFile'),
                             ![t].arg = << >>, ![t].aux = << >> ]
    /\ NoteSettingsWrite(t)
    /\ UNCHANGED <<commands, skills, agents, notifyCount, lastEvent>>

\* The locals of a call are dead once it is about to return.
Returning(t) == [ IdleTask EXCEPT !.pc = "return", !.entry = task[t].entry,
                                  !.op = task[t].op, !.idx = task[t].idx ]

\* A method returns without saving.
Skip(t) ==
    /\ task' = [ task EXCEPT ![t] = Returning(t) ]
    /\ UNCHANGED <<settingsFile, commands, skills, agents, calls, notifyCount, lastEvent>>

\* The call is over, with a result for its caller.
FinishWith(t, status, refreshes, result) ==
    /\ task' = [ task EXCEPT ![t] = IdleTask ]
    /\ calls' = [ calls EXCEPT ![task[t].idx].status = status,
                               ![task[t].idx].refreshed = @ + refreshes,
                               ![task[t].idx].result = result,
                               ![task[t].idx].post = Disk ]
    /\ UNCHANGED <<settingsFile, commands, skills, agents, notifyCount, lastEvent>>

\* The call is over.
Finish(t, status, refreshes) == FinishWith(t, status, refreshes, << >>)

\* The method throws: a TypeError for a property read of null or undefined,
\* which nothing in the service catches.
Throw(t) == Finish(t, "threw", 0)

----------------------------------------------------------------------------
(* saveSettings after its await, and the end of a call *)

\* Mutant: saveSettings that returns without firing.
FireConfigChanged_Silent(t) ==
    /\ At(t, "fire")
    /\ task' = [ task EXCEPT ![t] = Returning(t) ]
    /\ UNCHANGED <<settingsFile, commands, skills, agents, calls, notifyCount, lastEvent>>

\* saveSettings, deleteCommand, deleteSkill, deleteAgent after `await`: fire the
\* configuration loaded before the await.
FireConfigChanged(t) ==
    /\ At(t, "fire")
    /\ Notify(task[t].cfg, settingsFile)
    /\ Note(t, 0, 1)
    /\ task' = [ task EXCEPT ![t] = Returning(t) ]
    /\ UNCHANGED <<settingsFile, commands, skills, agents>>

\* createHook(event, matcher, command): the Hook that addHook returns.  Its id
\* is `${event}-${Date.now()}-${Math.random().toString(36).substr(2, 9)}`: the
\* event, the digits of a time and a string of digits and small letters.
createHook(event, matcher, command) ==
    [ id      |-> <<event, "-", "1", "-", "r">>,
      event   |-> event,
      matcher |-> matcher,
      command |-> command ]

\* What the method of call c returns: addHook returns the Hook it created
\* from its arguments before the save.
ReturnValue(c) ==
    IF c.op = "addHook" THEN createHook(c.arg.event, c.arg.matcher, c.arg.command)
    ELSE << >>

\* The service method returns to an API caller.
Return(t) ==
    /\ At(t, "return")
    /\ task[t].entry = "api"
    /\ FinishWith(t, "ok", 0, ReturnValue(calls[task[t].idx]))

\* The service method returns to a command handler of the extension, which then
\* calls treeProvider?.refresh().
RefreshTree(t) ==
    /\ At(t, "return")
    /\ task[t].entry = "ui"
    /\ Finish(t, "ok", 1)

----------------------------------------------------------------------------
(* Hooks *)

addHook(t, entry) ==
    \E event \in HookEvents, matcher \in Matchers, command \in HookCommands :
        /\ Begin(t, entry, "addHook",
                 [ event |-> event, matcher |-> matcher, command |-> command ], "addHook_save")
        /\ UNCHANGED <<settingsFile, commands, skills, agents, notifyCount, lastEvent>>

addHookSave(t) ==
    /\ At(t, "addHook_save")
    /\ IF task[t].cfg.isNull THEN Throw(t)
       ELSE SaveSettings(t, AddHookSettings(task[t].cfg, task[t].arg.event,
                                            task[t].arg.matcher, task[t].arg.command))

deleteHook(t, entry) ==
    \E event \in HookEvents : \E hookId \in HookIds(event) :
        /\ Begin(t, entry, "deleteHook", [ event |-> event, hookId |-> hookId ],
                 "deleteHook_getHooks")
        /\ UNCHANGED <<settingsFile, commands, skills, agents, notifyCount, lastEvent>>

\* deleteHook after its first await: getHooks reads the settings again.
deleteHookGetHooks(t) ==
    /\ At(t, "deleteHook_getHooks")
    /\ IF loadConfig(settingsFile).isNull THEN Throw(t)
       ELSE /\ task' = [ task EXCEPT ![t].pc = "deleteHook_save",
                             ![t].aux = getHooks(loadConfig(settingsFile), task[t].arg.event) ]
            /\ UNCHANGED <<settingsFile, commands, skills, agents, calls, notifyCount,
                           lastEvent>>

\* Mutant: deleteHook that saves what it read when the id resolves to no hook.
deleteHookSave_AlwaysSave(t) ==
    /\ At(t, "deleteHook_save")
    /\ IF HookResolves(task[t].aux, task[t].arg.hookId)
       THEN SaveSettings(t, DeleteHookSettings(task[t].cfg, task[t].aux,
                                               task[t].arg.event, task[t].arg.hookId))
       ELSE SaveSettings(t, task[t].cfg)

\* (`!config.settings.hooks` of a null settings throws only if the id resolved.)
deleteHookSave(t) ==
    /\ At(t, "deleteHook_save")
    /\ IF ~HookResolves(task[t].aux, task[t].arg.hookId) THEN Skip(t)
       ELSE IF task[t].cfg.isNull THEN Throw(t)
       ELSE IF Lacks(task[t].cfg, {"hooks", task[t].arg.event}) THEN Skip(t)
       ELSE SaveSettings(t, DeleteHookSettings(task[t].cfg, task[t].aux,
                                               task[t].arg.event, task[t].arg.hookId))

\* getHooks(eventFilter) as a call of its own.
getHooksCall(t, entry) ==
    \E event \in HookEvents :
        /\ Begin(t, entry, "getHooks", [ event |-> event ], "getHooks_return")
        /\ UNCHANGED <<settingsFile, commands, skills, agents, notifyCount, lastEvent>>

getHooksReturn(t) ==
    /\ At(t, "getHooks_return")
    /\ IF task[t].cfg.isNull THEN Throw(t)
       ELSE FinishWith(t, "ok", 0, getHooks(task[t].cfg, task[t].arg.event))

\* getConfig(scope).settings as a call of its own: what loadConfig returns.
getConfigCall(t, entry) ==
    /\ Begin(t, entry, "getConfig", << >>, "getConfig_return")
    /\ UNCHANGED <<settingsFile, commands, skills, agents, notifyCount, lastEvent>>

getConfigReturn(t) ==
    /\ At(t, "getConfig_return")
    /\ FinishWith(t, "ok", 0, task[t].cfg)

----------------------------------------------------------------------------
(* Permissions *)

\* getPermissions as a call of its own.
getPermissionsCall(t, entry) ==
    /\ Begin(t, entry, "getPermissions", << >>, "getPermissions_return")
    /\ UNCHANGED <<settingsFile, commands, skills, agents, notifyCount, lastEvent>>

getPermissionsReturn(t) ==
    /\ At(t, "getPermissions_return")
    /\ IF task[t].cfg.isNull THEN Throw(t)
       ELSE FinishWith(t, "ok", 0, task[t].cfg.permissions)

\* The permissions a caller of setPermissions passes: a caller that keeps the
\* buckets duplicate-free.
SetPermissionsInputs ==
    { [ allow |-> << >>, deny |-> << >>, ask |-> << >> ],
      [ allow |-> << "B", "A" >>, deny |-> << "A" >>, ask |-> << >> ] }

setPermissions(t, entry) ==
    \E permissions \in SetPermissionsInputs :
        /\ Begin(t, entry, "setPermissions", [ permissions |-> permissions ],
                 "setPermissions_save")
        /\ UNCHANGED <<settingsFile, commands, skills, agents, notifyCount, lastEvent>>

setPermissionsSave(t) ==
    /\ At(t, "setPermissions_save")
    /\ IF task[t].cfg.isNull THEN Throw(t)
       ELSE SaveSettings(t, SetPermissionsSettings(task[t].cfg, task[t].arg.permissions))

addPermission(t, entry) ==
    \E type \in Buckets, rule \in Patterns :
        /\ Begin(t, entry, "addPermission", [ type |-> type, rule |-> rule ],
                 "addPermission_save")
        /\ UNCHANGED <<settingsFile, commands, skills, agents, notifyCount, lastEvent>>

addPermissionSave(t) ==
    /\ At(t, "addPermission_save")
    /\ IF task[t].cfg.isNull \/ PermissionThrows(task[t].cfg, task[t].arg.type)
       THEN Throw(t)
       ELSE SaveSettings(t, AddPermissionSettings(task[t].cfg, task[t].arg.type,
                                                  task[t].arg.rule))

removePermission(t, entry) ==
    \E type \in Buckets, rule \in Patterns :
        /\ Begin(t, entry, "removePermission", [ type |-> type, rule |-> rule ],
                 "removePermission_save")
        /\ UNCHANGED <<settingsFile, commands, skills, agents, notifyCount, lastEvent>>

removePermissionSave(t) ==
    /\ At(t, "removePermission_save")
    /\ IF task[t].cfg.isNull \/ PermissionThrows(task[t].cfg, task[t].arg.type)
       THEN Throw(t)
       ELSE SaveSettings(t, RemovePermissionSettings(task[t].cfg, task[t].arg.type,
                                                     task[t].arg.rule))

\* The handler of thinkube.editPermissions: it reads the permissions, then waits
\* for the user's choice of bucket and pattern.
editPermissions(t) ==
    /\ Begin(t, "ui", "editPermissions", << >>, "editPermissions_input")
    /\ UNCHANGED <<settingsFile, commands, skills, agents, notifyCount, lastEvent>>

\* The user chose 'Add to <bucket>' and a pattern: the handler pushes the pattern
\* onto the permissions it read and calls setPermissions, which reads the
\* configuration and awaits.
editPermissionsSubmit(t) ==
    /\ At(t, "editPermissions_input")
    /\ \E type \in Buckets, pattern \in Patterns :
        LET read == getPermissions(task[t].cfg)
            pushed == [ read EXCEPT ![type] = Append(@, pattern) ]
        IN  /\ task' = [ task EXCEPT ![t].pc = "setPermissions_save",
                                     ![t].arg = [ permissions |-> pushed ],
                                     ![t].cfg = loadConfig(settingsFile) ]
            /\ calls' = [ calls EXCEPT ![task[t].idx].arg =
                                            [ type |-> type, rule |-> pattern ] ]
    /\ UNCHANGED <<settingsFile, commands, skills, agents, notifyCount, lastEvent>>

\* The user chose 'View Current' or dismissed a prompt: the handler returns.
editPermissionsCancel(t) ==
    /\ At(t, "editPermissions_input")
    /\ Finish(t, "cancelled", 0)

\* [...new Set(patterns)]: each pattern once, at the place where it comes
\* first.
RECURSIVE SetInOrder(_)
SetInOrder(patterns) ==
    IF patterns = << >> THEN << >>
    ELSE LET front == SubSeq(patterns, 1, Len(patterns) - 1)
             last == patterns[Len(patterns)]
         IN  IF Includes(front, last) THEN SetInOrder(front)
             ELSE Append(SetInOrder(front), last)

\* Mutant: a merge that puts the overriding patterns first.
mergePermissions_OverrideFirst(base, override, overrideLacks) ==
    [ k \in Buckets |->
        SetInOrder((IF k \in overrideLacks THEN << >> ELSE override[k]) \o base[k]) ]

\* mergePermissions(base, override): per bucket, the set of base followed by
\* override (`override.allow || []` for a bucket the override lacks).
mergePermissions(base, override, overrideLacks) ==
    [ k \in Buckets |->
        SetInOrder(base[k] \o (IF k \in overrideLacks THEN << >> ELSE override[k])) ]

\* The buckets a scope can hold: up to MaxBucketLen patterns, repeated or not.
BucketValues == UNION { [ 1..n -> Patterns ] : n \in 0..MaxBucketLen }

\* mergePermissions called on the permissions of the global scope and those of
\* the project: one bucket ranges over every value, the two others hold one
\* pattern each.  The function is called on values: nothing is persisted.
mergePermissionsCall ==
    /\ calls = << >>
    /\ \E bucket \in Buckets, g \in BucketValues, p \in BucketValues,
          overrideLacks \in SUBSET Buckets :
        LET base == [ k \in Buckets |-> IF k = bucket THEN g ELSE <<"A">> ]
            override == [ k \in Buckets |-> IF k = bucket THEN p ELSE <<"B">> ]
        IN  calls' = << [ op |-> "mergePermissions",
                          arg |-> [ base |-> base, override |-> override,
                                    overrideLacks |-> overrideLacks ],
                          entry |-> "api", status |-> "ok", writes |-> 0, fired |-> 0,
                          refreshed |-> 0, wroteAt |-> 0,
                          result |-> mergePermissions(base, override, overrideLacks),
                          pre |-> Disk, post |-> Disk ] >>
    /\ UNCHANGED <<settingsFile, commands, skills, agents, task, notifyCount, lastEvent>>

----------------------------------------------------------------------------
(* MCP servers *)

addMcpServer(t, entry) ==
    \E id \in ServerIds, serverConfig \in ServerConfigs :
        /\ Begin(t, entry, "addMcpServer", [ id |-> id, serverConfig |-> serverConfig ],
                 "addMcpServer_save")
        /\ UNCHANGED <<settingsFile, commands, skills, agents, notifyCount, lastEvent>>

addMcpServerSave(t) ==
    /\ At(t, "addMcpServer_save")
    /\ IF task[t].cfg.isNull THEN Throw(t)
       ELSE SaveSettings(t, AddMcpServerSettings(task[t].cfg, task[t].arg.id,
                                                 task[t].arg.serverConfig))

\* getMcpServers as a call of its own: the entries of mcpServers, none if the
\* settings have no mcpServers.
getMcpServersCall(t, entry) ==
    /\ Begin(t, entry, "getMcpServers", << >>, "getMcpServers_return")
    /\ UNCHANGED <<settingsFile, commands, skills, agents, notifyCount, lastEvent>>

getMcpServersReturn(t) ==
    /\ At(t, "getMcpServers_return")
    /\ IF task[t].cfg.isNull THEN Throw(t)
       ELSE FinishWith(t, "ok", 0, task[t].cfg.mcpServers)

removeMcpServer(t, entry) ==
    \E id \in ServerIds :
        /\ Begin(t, entry, "removeMcpServer", [ id |-> id ], "removeMcpServer_save")
        /\ UNCHANGED <<settingsFile, commands, skills, agents, notifyCount, lastEvent>>

removeMcpServerSave(t) ==
    /\ At(t, "removeMcpServer_save")
    /\ IF task[t].cfg.isNull THEN Throw(t)
       ELSE IF HasMcpServer(task[t].cfg, task[t].arg.id)
       THEN SaveSettings(t, RemoveMcpServerSettings(task[t].cfg, task[t].arg.id))
       ELSE Skip(t)

----------------------------------------------------------------------------
(* Commands, skills and agents *)

FilesOf(kind, disk) ==
    CASE kind = "command" -> disk.commands
      [] kind = "skill"   -> disk.skills
      [] kind = "agent"   -> disk.agents

\* getCommands, getSkills, getAgents
ListArtifacts(kind, disk) ==
    CASE kind = "command" -> getCommands(disk.commands)
      [] kind = "skill"   -> getSkills(disk.skills)
      [] kind = "agent"   -> getAgents(disk.agents)

ToMarkdown(kind, artifact) ==
    CASE kind = "command" -> commandToMarkdown(artifact)
      [] kind = "skill"   -> skillToMarkdown(artifact)
      [] kind = "agent"   -> agentToMarkdown(artifact)

\* The files after `files` replaces those of `kind`.
SetFiles(kind, files) ==
    /\ commands' = IF kind = "command" THEN files ELSE commands
    /\ skills'   = IF kind = "skill" THEN files ELSE skills
    /\ agents'   = IF kind = "agent" THEN files ELSE agents

\* The record createCommand, createSkill or createAgent builds from its
\* arguments: no argument hint, no tools, the default model.
NewArtifact(kind, name, description) ==
    IF kind = "command"
    THEN [ name |-> name, description |-> description, content |-> DefaultContent,
           argumentHint |-> << >> ]
    ELSE [ name |-> name, description |-> description, content |-> DefaultContent,
           tools |-> << >>, model |-> <<"inherit">> ]

CreateArtifact(t, entry, op, kind) ==
    \E name \in Names, description \in Descriptions :
        /\ Begin(t, entry, op,
                 [ kind |-> kind, name |-> name, description |-> description ], "create_write")
        /\ UNCHANGED <<settingsFile, commands, skills, agents, notifyCount, lastEvent>>

createCommand(t, entry) == CreateArtifact(t, entry, "createCommand", "command")

createSkill(t, entry) == CreateArtifact(t, entry, "createSkill", "skill")

createAgent(t, entry) == CreateArtifact(t, entry, "createAgent", "agent")

\* createCommand, createSkill, createAgent after `await this.getConfig`: write
\* <name>.md (SKILL.md in the directory <name>) and fire the configuration that
\* was loaded before the write.
createWrite(t) ==
    /\ At(t, "create_write")
    /\ LET kind == task[t].arg.kind
           artifact == NewArtifact(kind, task[t].arg.name, task[t].arg.description)
       IN  SetFiles(kind, WriteFile(FilesOf(kind, Disk), task[t].arg.name,
                                    ToMarkdown(kind, artifact)))
    /\ Notify(task[t].cfg, settingsFile)
    /\ Note(t, 1, 1)
    /\ task' = [ task EXCEPT ![t] = Returning(t) ]
    /\ UNCHANGED settingsFile

DeleteArtifact(t, entry, op, kind) ==
    \E name \in Names :
        /\ Begin(t, entry, op, [ kind |-> kind, name |-> name ], "delete_list")
        /\ UNCHANGED <<settingsFile, commands, skills, agents, notifyCount, lastEvent>>

deleteCommand(t, entry) == DeleteArtifact(t, entry, "deleteCommand", "command")

deleteSkill(t, entry) == DeleteArtifact(t, entry, "deleteSkill", "skill")

deleteAgent(t, entry) == DeleteArtifact(t, entry, "deleteAgent", "agent")

\* getCommands, getSkills, getAgents after `await this.getConfig`: read and parse
\* the files.
deleteList(t) ==
    /\ At(t, "delete_list")
    /\ task' = [ task EXCEPT ![t].pc = "delete_remove",
                             ![t].aux = ListArtifacts(task[t].arg.kind, Disk) ]
    /\ UNCHANGED <<settingsFile, commands, skills, agents, calls, notifyCount, lastEvent>>

\* Mutant: a delete that fires the change event whether or not it removed a file.
deleteRemove_AlwaysFire(t) ==
    /\ At(t, "delete_remove")
    /\ LET kind == task[t].arg.kind
           found == { a \in task[t].aux : a.name = task[t].arg.name
                                           /\ a.filePath \in DOMAIN FilesOf(kind, Disk) }
           removed == IF found = {} THEN FilesOf(kind, Disk)
                      ELSE RemoveFile(FilesOf(kind, Disk), (CHOOSE a \in found : TRUE).filePath)
       IN  SetFiles(kind, removed)
    /\ task' = [ task EXCEPT ![t].pc = "fire", ![t].cfg = loadConfig(settingsFile),
                             ![t].arg = << >>, ![t].aux = << >> ]
    /\ Note(t, 0, 0)
    /\ UNCHANGED <<settingsFile, notifyCount, lastEvent>>

\* deleteCommand, deleteSkill, deleteAgent after the list: find the artifact by
\* name; if it is found and its file (directory) exists, remove that and load
\* the configuration for the notification.
deleteRemove(t) ==
    /\ At(t, "delete_remove")
    /\ LET kind == task[t].arg.kind
           found == { a \in task[t].aux : a.name = task[t].arg.name }
       IN  IF \E a \in found : a.filePath \in DOMAIN FilesOf(kind, Disk)
           THEN \E a \in found :
                    /\ a.filePath \in DOMAIN FilesOf(kind, Disk)
                    /\ SetFiles(kind, RemoveFile(FilesOf(kind, Disk), a.filePath))
                    /\ task' = [ task EXCEPT ![t].pc = "fire",
                                             ![t].cfg = loadConfig(settingsFile),
                                             ![t].arg = << >>, ![t].aux = << >> ]
                    /\ Note(t, 1, 0)
                    /\ UNCHANGED <<settingsFile, notifyCount, lastEvent>>
           ELSE Skip(t)

----------------------------------------------------------------------------
(* updateCommand *)

\* updateCommand(name, updates) up to the await in getCommands; the updates
\* replace the description.
updateCommand(t, entry) ==
    \E name \in Names, description \in Descriptions :
        /\ Begin(t, entry, "updateCommand",
                 [ kind |-> "command", name |-> name, description |-> description ],
                 "update_list")
        /\ UNCHANGED <<settingsFile, commands, skills, agents, notifyCount, lastEvent>>

\* getCommands after `await this.getConfig`: read and parse the files.
updateList(t) ==
    /\ At(t, "update_list")
    /\ task' = [ task EXCEPT ![t].pc = "update_write", ![t].aux = getCommands(commands) ]
    /\ UNCHANGED <<settingsFile, commands, skills, agents, calls, notifyCount, lastEvent>>

\* Mutant: an update that creates the command it does not find.
updateWrite_Upsert(t) ==
    /\ At(t, "update_write")
    /\ LET updated == NewArtifact("command", task[t].arg.name, task[t].arg.description)
       IN  commands' = WriteFile(commands, task[t].arg.name, commandToMarkdown(updated))
    /\ task' = [ task EXCEPT ![t].pc = "fire", ![t].cfg = loadConfig(settingsFile),
                             ![t].arg = << >>, ![t].aux = << >> ]
    /\ Note(t, 1, 0)
    /\ UNCHANGED <<settingsFile, skills, agents, notifyCount, lastEvent>>

\* updateCommand after the list: find the command by name and throw if there is
\* none; otherwise write { ...existing, ...updates } to the file of the command
\* and load the configuration for the notification.
updateWrite(t) ==
    /\ At(t, "update_write")
    /\ LET found == { c \in task[t].aux : c.name = task[t].arg.name }
       IN  IF found = {}
           THEN FinishWith(t, "threw", 0, "Command not found")
           ELSE \E existing \in found :
                    LET updated == [ existing EXCEPT !.description = task[t].arg.description ]
                    IN  /\ commands' = WriteFile(commands, existing.filePath,
                                                 commandToMarkdown(updated))
                        /\ task' = [ task EXCEPT ![t].pc = "fire",
                                                 ![t].cfg = loadConfig(settingsFile),
                                                 ![t].arg = << >>, ![t].aux = << >> ]
                        /\ Note(t, 1, 0)
                        /\ UNCHANGED <<settingsFile, skills, agents, notifyCount, lastEvent>>

----------------------------------------------------------------------------
(* getCommands, getSkills and getAgents on files written by hand *)

\* The lines of a text written by hand.
TextLines == { Delimiter, HeaderLine("description", <<"d">>), <<"c">>, << >> }

\* The texts of up to MaxLines lines.
HandTexts == UNION { [ 1..n -> TextLines ] : n \in 0..MaxLines }

\* A text the store itself writes.
StoreText == << Delimiter, HeaderLine("description", <<"d">>), Delimiter, << >>, <<"c">> >>

\* The directory of one kind holds a file (a directory with SKILL.md, for a
\* skill) written by hand, alone or beside one the store wrote; the two other
\* directories are empty.
InitList ==
    /\ settingsFile \in InitialFiles
    /\ \E kind \in Kinds, text \in HandTexts, others \in { {}, { <<"b">> } } :
        LET files == [ f \in { <<"a">> } \cup others |->
                         IF f = <<"a">> THEN FromLines(text) ELSE FromLines(StoreText) ]
        IN  /\ commands = IF kind = "command" THEN files ELSE NoFiles
            /\ skills = IF kind = "skill" THEN files ELSE NoFiles
            /\ agents = IF kind = "agent" THEN files ELSE NoFiles
    /\ task = [ t \in Tasks |-> IdleTask ]
    /\ calls = << >>
    /\ notifyCount = 0
    /\ lastEvent = [ snapshot |-> createDefaultSettings, persisted |-> createDefaultSettings ]

\* Mutant: a list that reads the directory without testing that it exists.
ListContainer_NoExistsCheck(kind, exists, disk) ==
    [ threw |-> ~exists, listed |-> IF ~exists THEN {} ELSE ListArtifacts(kind, disk) ]

\* getCommands, getSkills, getAgents: no artifact if the directory does not
\* exist; otherwise the files that parse.  Nothing is thrown: fs.readdirSync is
\* called on a directory that exists, and reading and parsing a file is inside
\* a try.
ListContainer(kind, exists, disk) ==
    [ threw |-> FALSE, listed |-> IF ~exists THEN {} ELSE ListArtifacts(kind, disk) ]

\* getCommands, getSkills or getAgents as a call of its own.  A directory that
\* holds no file may exist or not.
listArtifacts(t, entry) ==
    \E kind \in Kinds, exists \in BOOLEAN :
        /\ DOMAIN FilesOf(kind, Disk) # {} => exists
        /\ Begin(t, entry, "list", [ kind |-> kind, exists |-> exists ], "list_return")
        /\ UNCHANGED <<settingsFile, commands, skills, agents, notifyCount, lastEvent>>

listReturn(t) ==
    /\ At(t, "list_return")
    /\ LET listed == ListContainer(task[t].arg.kind, task[t].arg.exists, Disk)
       IN  IF listed.threw THEN Throw(t) ELSE FinishWith(t, "ok", 0, listed.listed)

----------------------------------------------------------------------------
(* initializeClaudeConfig: no await; it writes the default settings.json if there
   is none and fires the default configuration. *)

initializeClaudeConfig(t, entry) ==
    /\ BeginWith(t, entry, "initializeClaudeConfig", << >>, "return",
                 IF settingsFile.exists THEN 0 ELSE 1, 1)
    /\ settingsFile' = IF settingsFile.exists THEN settingsFile
                       ELSE SettingsFile(createDefaultSettings)
    /\ Notify(createDefaultSettings, settingsFile')
    /\ UNCHANGED <<commands, skills, agents>>

----------------------------------------------------------------------------
(* settings.json edited outside the service *)

\* The documents an editor leaves in settings.json.
ExternalDocs ==
    { ConfiguredSettings,
      [ createDefaultSettings EXCEPT
          !.hooks.PreToolUse =
              << [ matcher |-> <<"E", "-", "x">>, hooks |-> << NewHookDef(<<"x">>) >> ] >> ] }

\* A settings.json that holds `{}`.
EmptyObject ==
    [ createDefaultSettings EXCEPT !.absent = {"hooks", "permissions", "mcpServers"} ]

\* A settings.json written by hand: one hook phase, one permission bucket, no
\* servers.
PartialSettings ==
    [ ConfiguredSettings EXCEPT !.absent = {"PreToolUse", "deny", "ask", "mcpServers"} ]

\* A settings.json that holds `null`: JSON.parse returns null without throwing.
NullSettings == [ createDefaultSettings EXCEPT !.isNull = TRUE ]

\* A settings.json whose text JSON.parse rejects.
UnparsableFile == [ exists |-> TRUE, parses |-> FALSE, doc |-> createDefaultSettings ]

\* A settings.json written by hand: a key the store does not know, and a
\* matcher group that has no action yet before the group of another matcher.
HandWrittenSettings ==
    [ ConfiguredSettings EXCEPT
        !.unknown = {"model"},
        !.hooks.PostToolUse =
            << [ matcher |-> <<"E", "-", "x">>, hooks |-> << >> ],
               [ matcher |-> <<"E">>, hooks |-> << NewHookDef(<<"x">>) >> ] >> ]

InitFrame ==
    /\ settingsFile \in { SettingsFile([ ConfiguredSettings EXCEPT !.unknown = {"model"} ]),
                          SettingsFile(HandWrittenSettings) }
    /\ commands = NoFiles
    /\ skills = NoFiles
    /\ agents = NoFiles
    /\ task = [ t \in Tasks |-> IdleTask ]
    /\ calls = << >>
    /\ notifyCount = 0
    /\ lastEvent = [ snapshot |-> createDefaultSettings, persisted |-> createDefaultSettings ]

\* settings.json as a project can hold it before the first call.
ShapedFiles ==
    { NoSettingsFile, UnparsableFile, SettingsFile(NullSettings),
      SettingsFile(EmptyObject), SettingsFile(PartialSettings),
      SettingsFile(ConfiguredSettings) }

InitShapes ==
    /\ settingsFile \in ShapedFiles
    /\ commands = NoFiles
    /\ skills = NoFiles
    /\ agents = NoFiles
    /\ task = [ t \in Tasks |-> IdleTask ]
    /\ calls = << >>
    /\ notifyCount = 0
    /\ lastEvent = [ snapshot |-> createDefaultSettings, persisted |-> createDefaultSettings ]

\* Between two calls of the service, settings.json is replaced by another
\* document.
ExternalEdit ==
    /\ \A t \in Tasks : Idle(t)
    /\ calls # << >>
    /\ \E doc \in ExternalDocs :
        /\ loadConfig(settingsFile) # doc
        /\ settingsFile' = SettingsFile(doc)
    /\ UNCHANGED <<commands, skills, agents, task, calls, notifyCount, lastEvent>>

----------------------------------------------------------------------------
(* Writes that fail *)

\* The call of task t is about to call saveSettings.
WouldSave(t) ==
    LET cfg == task[t].cfg
        arg == task[t].arg
    IN  /\ ~cfg.isNull
        /\ \/ At(t, "addHook_save")
           \/ At(t, "deleteHook_save") /\ HookResolves(task[t].aux, arg.hookId)
                                       /\ ~Lacks(cfg, {"hooks", arg.event})
           \/ At(t, "setPermissions_save")
           \/ At(t, "addPermission_save") /\ ~PermissionThrows(cfg, arg.type)
           \/ At(t, "removePermission_save") /\ ~PermissionThrows(cfg, arg.type)
           \/ At(t, "addMcpServer_save")
           \/ At(t, "removeMcpServer_save") /\ HasMcpServer(cfg, arg.id)

\* A file whose write failed after fs.writeFileSync opened it: the open
\* truncates the file, and no text that is cut short parses.
TruncatedText == [ framed |-> FALSE, header |-> << >>, body |-> << >> ]

\* The exception of fs.mkdirSync or fs.writeFileSync leaves the method: nothing
\* catches it, nothing is fired, the call is over.
FailWrite(t) ==
    /\ task' = [ task EXCEPT ![t] = IdleTask ]
    /\ calls' = [ calls EXCEPT ![task[t].idx].status = "failed",
                               ![task[t].idx].post = Disk' ]
    /\ UNCHANGED <<notifyCount, lastEvent>>

\* saveSettings whose mkdirSync or writeFileSync throws: settings.json is as it
\* was if the directory or the file could not be opened, and cut short if the
\* write failed after the open.
saveSettingsFails(t) ==
    /\ WouldSave(t)
    /\ \E opened \in BOOLEAN :
        settingsFile' = IF opened THEN UnparsableFile ELSE settingsFile
    /\ UNCHANGED <<commands, skills, agents>>
    /\ FailWrite(t)

\* createCommand, createSkill or createAgent whose mkdirSync or writeFileSync
\* throws, in the same two ways.
createWriteFails(t) ==
    /\ At(t, "create_write")
    /\ \E opened \in BOOLEAN :
        LET kind == task[t].arg.kind
        IN  SetFiles(kind, IF opened
                           THEN WriteFile(FilesOf(kind, Disk), task[t].arg.name,
                                          TruncatedText)
                           ELSE FilesOf(kind, Disk))
    /\ UNCHANGED settingsFile
    /\ FailWrite(t)

----------------------------------------------------------------------------
(* The name normalizers, called on their own *)

\* The characters of a raw name: a capital, a small letter, a digit, the hyphen,
\* the slash of a slash command and a blank.
NameChars == { "A", "a", "1", "-", "/", " " }

\* The raw names of up to MaxNameLen characters.
RawNames == UNION { [ 1..n -> NameChars ] : n \in 0..MaxNameLen }

\* normalizeCommandName, normalizeSkillName or normalizeAgentName applied to a
\* raw name.
normalizeName ==
    /\ calls = << >>
    /\ \E kind \in Kinds, name \in RawNames :
        calls' = << [ op |-> "normalize", arg |-> [ kind |-> kind, name |-> name ],
                      entry |-> "api", status |-> "ok", writes |-> 0, fired |-> 0,
                      refreshed |-> 0, wroteAt |-> 0,
                      result |-> Normalize(kind, name),
                      pre |-> Disk, post |-> Disk ] >>
    /\ UNCHANGED <<settingsFile, commands, skills, agents, task, notifyCount, lastEvent>>

----------------------------------------------------------------------------
(* The codecs, called on their own *)

\* Names in canonical form.
CanonicalNames == { <<"a">>, <<"a", "-", "b">> }

\* One-line descriptions without whitespace at their ends.
CodecDescriptions == { << >>, <<"d">>, <<"d", " ", "e">>, <<"d", ":", "e">> }

\* Freeform contents of up to MaxContentLen characters.
CodecContents == UNION { [ 1..n -> { "c", " " } ] : n \in 0..MaxContentLen }

CodecTools == { << >>, << <<"R">> >>, << <<"R">>, <<"B">> >> }

CodecModels == { <<"inherit">>, <<"haiku">>, <<"sonnet">>, <<"opus">> }

\* No argument hint, or a non-empty one.
CodecHints == { << >>, << <<"h">> >> }

\* The records of a kind, each at the location the store gives it: the file
\* (the directory, for a skill) named after it.
Records(kind) ==
    IF kind = "command"
    THEN { [ name |-> n, description |-> d, argumentHint |-> h, content |-> c,
             filePath |-> n ] :
             n \in CanonicalNames, d \in CodecDescriptions, h \in CodecHints,
             c \in CodecContents }
    ELSE { [ name |-> n, description |-> d, tools |-> ts, model |-> m, content |-> c,
             filePath |-> n ] :
             n \in CanonicalNames, d \in CodecDescriptions, ts \in CodecTools,
             m \in CodecModels, c \in CodecContents }

Parse(kind, text, path) ==
    CASE kind = "command" -> parseCommandMarkdown(text, path)
      [] kind = "skill"   -> parseSkillMarkdown(text, path)
      [] kind = "agent"   -> parseAgentMarkdown(text, path)

\* A record is encoded and the text is decoded at the record's location.
roundTrip ==
    /\ calls = << >>
    /\ \E kind \in Kinds : \E record \in Records(kind) :
        calls' = << [ op |-> "roundTrip", arg |-> [ kind |-> kind, record |-> record ],
                      entry |-> "api", status |-> "ok", writes |-> 0, fired |-> 0,
                      refreshed |-> 0, wroteAt |-> 0,
                      result |-> Parse(kind, ToMarkdown(kind, record), record.filePath),
                      pre |-> Disk, post |-> Disk ] >>
    /\ UNCHANGED <<settingsFile, commands, skills, agents, task, notifyCount, lastEvent>>

----------------------------------------------------------------------------
(* The configuration tree provider and its subscriptions *)

\* The config services a tree provider can be bound to.
TreeServices == { "service1", "service2" }

\* An entry of the history of a tree provider.  `result` is the provider after
\* the entry: the service it holds and the listeners it has registered so far,
\* one service name per listener.
TreeEntry(op, service, refreshed, provider) ==
    [ op |-> op, arg |-> [ service |-> service ], entry |-> "ui", status |-> "ok",
      writes |-> 0, fired |-> 0, refreshed |-> refreshed, wroteAt |-> 0,
      result |-> provider, pre |-> Disk, post |-> Disk ]

\* The provider as the last entry left it.
TreeProvider == calls[Len(calls)].result

\* new ConfigTreeProvider(configService): one listener on the service.
newConfigTreeProvider ==
    /\ calls = << >>
    /\ \E service \in TreeServices :
        calls' = << TreeEntry("new", service, 0,
                              [ configService |-> service, listeners |-> << service >> ]) >>
    /\ UNCHANGED <<settingsFile, commands, skills, agents, task, notifyCount, lastEvent>>

\* setConfigService(newService): the field is replaced, one more listener is
\* registered, on the new service, and the tree is refreshed; no listener is
\* disposed.
setConfigService ==
    /\ calls # << >> /\ Len(calls) < MaxTreeCalls
    /\ \E service \in TreeServices :
        calls' = Append(calls,
                    TreeEntry("setConfigService", service, 1,
                              [ configService |-> service,
                                listeners |-> Append(TreeProvider.listeners, service) ]))
    /\ UNCHANGED <<settingsFile, commands, skills, agents, task, notifyCount, lastEvent>>

\* A service fires onConfigChanged once: each listener registered on it calls
\* this.refresh().
serviceFires ==
    /\ calls # << >> /\ Len(calls) < MaxTreeCalls
    /\ \E service \in TreeServices :
        calls' = Append(calls,
                    TreeEntry("onConfigChanged", service,
                              Count(TreeProvider.listeners, service), TreeProvider))
    /\ UNCHANGED <<settingsFile, commands, skills, agents, task, notifyCount, lastEvent>>

----------------------------------------------------------------------------
(* The base path of a call *)

\* The public methods of the service that read or write the configuration.
StoreOperations ==
    { "getConfig", "saveSettings", "getHooks", "addHook", "deleteHook",
      "getPermissions", "setPermissions", "addPermission", "removePermission",
      "getCommands", "createCommand", "updateCommand", "deleteCommand",
      "getSkills", "createSkill", "deleteSkill",
      "getAgents", "createAgent", "deleteAgent",
      "getMcpServers", "addMcpServer", "removeMcpServer",
      "getClaudeMd", "saveClaudeMd", "initializeClaudeConfig" }

\* The project path a caller passes ("" for none) and the workspace folder the
\* service was constructed with ("" for none).
ProjectPaths == { "", "p" }

WorkspacePaths == { "", "w" }

\* Mutant: a base path that falls back to the global directory.
BasePath_HomeFallback(scope, projectPath, workspace) ==
    IF scope = "global" \/ (projectPath = "" /\ workspace = "") THEN "home/.claude"
    ELSE IF projectPath # "" THEN projectPath
    ELSE workspace

\* scope === 'global' ? path.join(HOME, '.claude')
\*                    : projectPath || this.getWorkspacePath()
BasePath(scope, projectPath, workspace) ==
    IF scope = "global" THEN "home/.claude"
    ELSE IF projectPath # "" THEN projectPath
    ELSE workspace

\* getConfig up to its call of loadConfig: it throws if there is no base path,
\* and loads from the base path otherwise.
getConfig(scope, projectPath, workspace) ==
    LET basePath == BasePath(scope, projectPath, workspace)
    IN  IF basePath = ""
        THEN [ threw |-> TRUE, error |-> "No workspace folder open", loads |-> "" ]
        ELSE [ threw |-> FALSE, error |-> "", loads |-> basePath ]

\* The first statements of a method: every method but getConfig asks for the
\* project scope, through getConfig('project', projectPath) or through the
\* same test of its own (saveSettings, saveClaudeMd, initializeClaudeConfig).
EnterOperation(op, scope, projectPath, workspace) ==
    getConfig(IF op = "getConfig" THEN scope ELSE "project", projectPath, workspace)

\* A method of a service is called: the call up to its first access to a file.
enterOperation ==
    /\ calls = << >>
    /\ \E op \in StoreOperations, scope \in { "project", "global" },
          projectPath \in ProjectPaths, workspace \in WorkspacePaths :
        /\ scope = "global" => op = "getConfig"
        /\ LET entered == EnterOperation(op, scope, projectPath, workspace)
           IN  calls' = << [ op |-> op,
                             arg |-> [ scope |-> scope, projectPath |-> projectPath,
                                       workspace |-> workspace ],
                             entry |-> "api",
                             status |-> IF entered.threw THEN "threw" ELSE "running",
                             writes |-> 0, fired |-> 0, refreshed |-> 0, wroteAt |-> 0,
                             result |-> entered,
                             pre |-> Disk, post |-> Disk ] >>
    /\ UNCHANGED <<settingsFile, commands, skills, agents, task, notifyCount, lastEvent>>

----------------------------------------------------------------------------
(* The decoders, called on texts the store did not write *)

\* Files (directories, for a skill) by their name without the extension.
DecodeFiles == { <<"a">>, <<"b", "-", "c">>, <<"a", ".md", "x">> }

\* Headers with no name line, with a name line without a value, and with a
\* name line that has one.
DecodeHeaders ==
    { names \o << HeaderLine("description", d) >> :
        names \in { << >>, << <<"name", ":">> >>, << HeaderLine("name", <<"n">>) >> },
        d \in CodecDescriptions }

\* A text with a frontmatter is decoded at a location.
decode ==
    /\ calls = << >>
    /\ \E kind \in Kinds, file \in DecodeFiles, header \in DecodeHeaders,
          body \in CodecContents :
        LET text == [ framed |-> TRUE, header |-> header, body |-> body ]
        IN  calls' = << [ op |-> "decode",
                          arg |-> [ kind |-> kind, file |-> file, text |-> text ],
                          entry |-> "api", status |-> "ok", writes |-> 0, fired |-> 0,
                          refreshed |-> 0, wroteAt |-> 0,
                          result |-> Parse(kind, text, file),
                          pre |-> Disk, post |-> Disk ] >>
    /\ UNCHANGED <<settingsFile, commands, skills, agents, task, notifyCount, lastEvent>>

----------------------------------------------------------------------------
(* Specifications *)

CanCall(n) == Len(calls) < n

HookCalls(t, entry, n) ==
    \/ CanCall(n) /\ addHook(t, entry)
    \/ CanCall(n) /\ deleteHook(t, entry)

HookSteps(t) ==
    \/ addHookSave(t)
    \/ deleteHookGetHooks(t)
    \/ deleteHookSave(t)

PermissionCalls(t, entry, n) ==
    \/ CanCall(n) /\ setPermissions(t, entry)
    \/ CanCall(n) /\ addPermission(t, entry)
    \/ CanCall(n) /\ removePermission(t, entry)

PermissionSteps(t) ==
    \/ setPermissionsSave(t)
    \/ addPermissionSave(t)
    \/ removePermissionSave(t)

McpCalls(t, entry, n) ==
    \/ CanCall(n) /\ addMcpServer(t, entry)
    \/ CanCall(n) /\ removeMcpServer(t, entry)

McpSteps(t) ==
    \/ addMcpServerSave(t)
    \/ removeMcpServerSave(t)

ArtifactCalls(t, entry, n) ==
    \/ CanCall(n) /\ createCommand(t, entry)
    \/ CanCall(n) /\ createSkill(t, entry)
    \/ CanCall(n) /\ createAgent(t, entry)
    \/ CanCall(n) /\ deleteCommand(t, entry)
    \/ CanCall(n) /\ deleteSkill(t, entry)
    \/ CanCall(n) /\ deleteAgent(t, entry)

ArtifactSteps(t) ==
    \/ createWrite(t)
    \/ deleteList(t)
    \/ deleteRemove(t)

\* Every mutation of the store's API, each call completed before the next starts.
Next ==
    \/ HookCalls(1, "api", MaxCalls)
    \/ PermissionCalls(1, "api", MaxCalls)
    \/ McpCalls(1, "api", MaxCalls)
    \/ ArtifactCalls(1, "api", MaxCalls)
    \/ CanCall(MaxCalls) /\ initializeClaudeConfig(1, "api")
    \/ HookSteps(1)
    \/ PermissionSteps(1)
    \/ McpSteps(1)
    \/ ArtifactSteps(1)
    \/ FireConfigChanged(1)
    \/ Return(1)

Spec == Init /\ [][Next]_vars

\* addHook and deleteHook calls of the API, overlapping at their awaits.
NextHooks ==
    \E t \in Tasks :
        \/ HookCalls(t, "api", MaxCalls)
        \/ HookSteps(t)
        \/ FireConfigChanged(t)
        \/ Return(t)

SpecHooks == Init /\ [][NextHooks]_vars

\* The same calls, each completed before the next starts.
NextHooksSeq ==
    \/ HookCalls(1, "api", MaxHookCalls)
    \/ HookSteps(1)
    \/ FireConfigChanged(1)
    \/ Return(1)

SpecHooksSeq == Init /\ [][NextHooksSeq]_vars

\* One record through one codec.
NextCodec == roundTrip

SpecCodec == Init /\ [][NextCodec]_vars

\* One call of one method, with or without a project.
NextEnter == enterOperation

SpecEnter == Init /\ [][NextEnter]_vars

\* A tree provider, rebound to services that fire.
NextTree ==
    \/ newConfigTreeProvider
    \/ setConfigService
    \/ serviceFires

SpecTree == Init /\ [][NextTree]_vars

\* createCommand and updateCommand, one call at a time.
NextUpdate ==
    \/ CanCall(MaxCreates) /\ createCommand(1, "api")
    \/ CanCall(MaxArtifactCalls) /\ updateCommand(1, "api")
    \/ createWrite(1)
    \/ updateList(1)
    \/ updateWrite(1)
    \/ FireConfigChanged(1)
    \/ Return(1)

SpecUpdate == Init /\ [][NextUpdate]_vars

\* One list of artifacts, on directories that hold files written by hand.
NextList ==
    \/ calls = << >> /\ listArtifacts(1, "api")
    \/ listReturn(1)

SpecList == InitList /\ [][NextList]_vars

\* One merge of two permission objects.
NextMerge == mergePermissionsCall

SpecMerge == Init /\ [][NextMerge]_vars

\* One text through one decoder.
NextDecode == decode

SpecDecode == Init /\ [][NextDecode]_vars

\* One call of one name normalizer.
NextNames == normalizeName

SpecNames == Init /\ [][NextNames]_vars

\* Hook calls and reads, one after another, with settings.json edited from
\* outside between them.
NextExternal ==
    \/ HookCalls(1, "api", MaxCalls)
    \/ CanCall(MaxCalls) /\ getHooksCall(1, "api")
    \/ HookSteps(1)
    \/ getHooksReturn(1)
    \/ FireConfigChanged(1)
    \/ Return(1)
    \/ ExternalEdit

SpecExternal == Init /\ [][NextExternal]_vars

ReadCalls(t, entry, n) ==
    \/ CanCall(n) /\ getConfigCall(t, entry)
    \/ CanCall(n) /\ getHooksCall(t, entry)
    \/ CanCall(n) /\ getPermissionsCall(t, entry)
    \/ CanCall(n) /\ getMcpServersCall(t, entry)

ReadSteps(t) ==
    \/ getConfigReturn(t)
    \/ getHooksReturn(t)
    \/ getPermissionsReturn(t)
    \/ getMcpServersReturn(t)

\* The reads and mutations of settings.json, one call at a time, from every
\* shape of settings.json.
NextShapes ==
    \/ ReadCalls(1, "api", MaxCalls)
    \/ HookCalls(1, "api", MaxCalls)
    \/ PermissionCalls(1, "api", MaxCalls)
    \/ McpCalls(1, "api", MaxCalls)
    \/ ReadSteps(1)
    \/ HookSteps(1)
    \/ PermissionSteps(1)
    \/ McpSteps(1)
    \/ FireConfigChanged(1)
    \/ Return(1)

SpecShapes == InitShapes /\ [][NextShapes]_vars

\* The mutations of settings.json, one call at a time, from documents written
\* by hand.
NextFrame ==
    \/ HookCalls(1, "api", MaxCalls)
    \/ PermissionCalls(1, "api", MaxCalls)
    \/ McpCalls(1, "api", MaxCalls)
    \/ HookSteps(1)
    \/ PermissionSteps(1)
    \/ McpSteps(1)
    \/ FireConfigChanged(1)
    \/ Return(1)

SpecFrame == InitFrame /\ [][NextFrame]_vars

\* Creates, then deletes, one call at a time: the deletes go on after the
\* creates have stopped.
NextDeletes ==
    \/ CanCall(MaxCreates) /\ createCommand(1, "api")
    \/ CanCall(MaxCreates) /\ createSkill(1, "api")
    \/ CanCall(MaxCreates) /\ createAgent(1, "api")
    \/ CanCall(MaxArtifactCalls) /\ deleteCommand(1, "api")
    \/ CanCall(MaxArtifactCalls) /\ deleteSkill(1, "api")
    \/ CanCall(MaxArtifactCalls) /\ deleteAgent(1, "api")
    \/ ArtifactSteps(1)
    \/ FireConfigChanged(1)
    \/ Return(1)

SpecDeletes == Init /\ [][NextDeletes]_vars

\* addHook, deleteHook and the creates, one call at a time, on a disk whose
\* writes can fail.
NextPersistFailure ==
    \/ HookCalls(1, "api", MaxCalls)
    \/ CanCall(MaxCalls) /\ createCommand(1, "api")
    \/ CanCall(MaxCalls) /\ createSkill(1, "api")
    \/ CanCall(MaxCalls) /\ createAgent(1, "api")
    \/ HookSteps(1)
    \/ createWrite(1)
    \/ saveSettingsFails(1)
    \/ createWriteFails(1)
    \/ FireConfigChanged(1)
    \/ Return(1)

SpecPersistFailure == Init /\ [][NextPersistFailure]_vars

\* createCommand, createSkill, createAgent and their deletes, one call at a time.
NextArtifacts ==
    \/ ArtifactCalls(1, "api", MaxArtifactCalls)
    \/ ArtifactSteps(1)
    \/ FireConfigChanged(1)
    \/ Return(1)

SpecArtifacts == Init /\ [][NextArtifacts]_vars

\* The command handlers of the extension that change the configuration, one at
\* a time.
NextUI ==
    \/ HookCalls(1, "ui", MaxCalls)
    \/ McpCalls(1, "ui", MaxCalls)
    \/ ArtifactCalls(1, "ui", MaxCalls)
    \/ CanCall(MaxCalls) /\ initializeClaudeConfig(1, "ui")
    \/ CanCall(MaxCalls) /\ editPermissions(1)
    \/ editPermissionsSubmit(1)
    \/ editPermissionsCancel(1)
    \/ setPermissionsSave(1)
    \/ HookSteps(1)
    \/ McpSteps(1)
    \/ ArtifactSteps(1)
    \/ FireConfigChanged(1)
    \/ RefreshTree(1)

SpecUI == Init /\ [][NextUI]_vars

\* The permission operations of the API and the Edit Permissions handler, one
\* call at a time.
NextPermissions ==
    \/ PermissionCalls(1, "api", MaxPermCalls)
    \/ CanCall(MaxPermCalls) /\ editPermissions(1)
    \/ editPermissionsSubmit(1)
    \/ editPermissionsCancel(1)
    \/ PermissionSteps(1)
    \/ FireConfigChanged(1)
    \/ Return(1)
    \/ RefreshTree(1)

SpecPermissions == Init /\ [][NextPermissions]_vars

\* The Edit Permissions handler waiting for its user while addPermission and
\* removePermission calls of the API run.
NextEdit ==
    \E t \in Tasks :
        \/ CanCall(MaxCalls) /\ editPermissions(t)
        \/ editPermissionsSubmit(t)
        \/ editPermissionsCancel(t)
        \/ setPermissionsSave(t)
        \/ CanCall(MaxCalls) /\ addPermission(t, "api")
        \/ CanCall(MaxCalls) /\ removePermission(t, "api")
        \/ addPermissionSave(t)
        \/ removePermissionSave(t)
        \/ FireConfigChanged(t)
        \/ Return(t)
        \/ RefreshTree(t)

SpecEdit == Init /\ [][NextEdit]_vars

----------------------------------------------------------------------------
(* Reading the history *)

Settings == loadConfig(settingsFile)

Finished(c) == c.status = "ok"

AllFinished == \A i \in 1..Len(calls) : Finished(calls[i])

CreateOps == {"createCommand", "createSkill", "createAgent"}

DeleteOps == {"deleteCommand", "deleteSkill", "deleteAgent"}

\* The artifacts of the kind of call c that have exactly the name c was given,
\* on the disk `disk`.
Named(c, disk) == { a \in ListArtifacts(c.arg.kind, disk) : a.name = c.arg.name }

\* The groups of one matcher in a list of matcher groups.
GroupsOf(matchers, matcher) ==
    LET IsMatcher(m) == m.matcher = matcher IN SelectSeq(matchers, IsMatcher)

----------------------------------------------------------------------------
(* C1: whatever addHook and deleteHook calls overlap, starting from a settings
   document in which no matcher repeats within a phase, each phase's list of
   matcher groups holds any matcher at most once. *)
C1_MatcherOncePerPhase ==
    \A event \in HookEvents, matcher \in Matchers :
        Len(GroupsOf(Settings.hooks[event], matcher)) <= 1

\* An addHook and a deleteHook that overlapped have both written, and the add
\* landed in a group that already held an action.
C1_Witness ==
    /\ Len(calls) = 2
    /\ AllFinished
    /\ { calls[1].op, calls[2].op } = { "addHook", "deleteHook" }
    /\ calls[1].writes = 1 /\ calls[2].writes = 1
    /\ calls[1].post # calls[2].pre
    /\ \E event \in HookEvents : \E i \in 1..Len(Settings.hooks[event]) :
            Len(Settings.hooks[event][i].hooks) >= 2

----------------------------------------------------------------------------
(* C2: k addHook calls for the same (phase, matcher), one after another, on a
   scope with no group for that matcher, leave exactly one group for the
   matcher, whose actions are the k commands in call order. *)
SameTargetAdds ==
    /\ calls # << >>
    /\ \A i \in 1..Len(calls) :
        /\ calls[i].op = "addHook"
        /\ Finished(calls[i])
        /\ calls[i].arg.event = calls[1].arg.event
        /\ calls[i].arg.matcher = calls[1].arg.matcher
    /\ GroupsOf(loadConfig(calls[1].pre.settingsFile).hooks[calls[1].arg.event],
                calls[1].arg.matcher) = << >>

C2_SequentialAddsOneGroup ==
    SameTargetAdds =>
        LET groups == GroupsOf(Settings.hooks[calls[1].arg.event], calls[1].arg.matcher)
        IN  /\ Len(groups) = 1
            /\ groups[1].hooks =
                [ i \in 1..Len(calls) |-> NewHookDef(calls[i].arg.command) ]

\* Three such calls with different commands, on a settings document that holds
\* another matcher's group in the same phase.
C2_Witness ==
    /\ SameTargetAdds
    /\ Len(calls) = 3
    /\ calls[1].arg.command # calls[2].arg.command
    /\ Len(loadConfig(calls[1].pre.settingsFile).hooks[calls[1].arg.event]) = 1

----------------------------------------------------------------------------
(* C3: a create call for a name whose normalized form is that of an artifact of
   the kind that already exists fails with a naming conflict and leaves the
   existing artifact unchanged. *)
C3_ConflictRejected ==
    \A i \in 1..Len(calls) :
        LET c == calls[i] IN
        ( /\ c.op \in CreateOps
          /\ c.status # "running"
          /\ \E a \in ListArtifacts(c.arg.kind, c.pre) :
                Normalize(c.arg.kind, a.name) = Normalize(c.arg.kind, c.arg.name) )
        => /\ c.status = "conflict"
           /\ FilesOf(c.arg.kind, c.post) = FilesOf(c.arg.kind, c.pre)

----------------------------------------------------------------------------
(* C4: from an uninitialized scope, createSkill(n) leaves exactly one skill,
   listed under the normalized form of n, and a following deleteSkill(n)
   leaves none. *)
C4_StoredUnderNormalizedName ==
    ( /\ Len(calls) >= 1
      /\ calls[1].op = "createSkill"
      /\ ~calls[1].pre.settingsFile.exists )
    => /\ ( Len(calls) = 1 /\ Finished(calls[1]) )
            => { a.name : a \in getSkills(skills) }
                    = { normalizeSkillName(calls[1].arg.name) }
       /\ ( /\ Len(calls) = 2 /\ AllFinished
            /\ calls[2].op = "deleteSkill"
            /\ calls[2].arg.name = calls[1].arg.name )
            => getSkills(skills) = {}

----------------------------------------------------------------------------
(* C5: a delete of a command, skill or agent by a name that no artifact of the
   kind has returns successfully, changes nothing that is persisted and raises
   no change notification, however often it is called. *)
C5_DeleteAbsentIsNoOp ==
    \A i \in 1..Len(calls) :
        LET c == calls[i] IN
        ( c.op \in DeleteOps /\ Named(c, c.pre) = {} )
        => /\ c.fired = 0
           /\ c.writes = 0
           /\ c.status \in {"running", "ok"}
           /\ (IF Finished(c) THEN c.post ELSE Disk) = c.pre

\* The same absent name deleted twice, each call returned, beside an artifact
\* that exists.
C5_Witness ==
    /\ Len(calls) = 3
    /\ AllFinished
    /\ calls[1].op = "createAgent"
    /\ calls[2].op = "deleteAgent" /\ calls[3].op = "deleteAgent"
    /\ calls[2].arg = calls[3].arg
    /\ Named(calls[2], calls[2].pre) = {}
    /\ DOMAIN agents # {}

----------------------------------------------------------------------------
(* C6 *)

\* The removals whose target does not exist when the call starts.
NothingToRemove(c) ==
    \/ c.op \in DeleteOps /\ Named(c, c.pre) = {}
    \/ /\ c.op = "deleteHook"
       /\ ~HookResolves(getHooks(loadConfig(c.pre.settingsFile), c.arg.event), c.arg.hookId)
    \/ c.op = "removeMcpServer" /\ ~HasMcpServer(loadConfig(c.pre.settingsFile), c.arg.id)

RECURSIVE FiredUpTo(_)
FiredUpTo(n) == IF n = 0 THEN 0 ELSE calls[n].fired + FiredUpTo(n - 1)

(* C6, as stated: every store call that returns successfully has raised
   exactly one change notification by the time it returns. *)
C6_EveryCallNotifiesOnce ==
    \A i \in 1..Len(calls) : Finished(calls[i]) => calls[i].fired = 1

(* C6, amended: every store call that returns successfully has raised exactly
   one change notification by the time it returns, except a removal whose
   target does not exist, which raises none; the notifications raised so far
   are those of the calls, one by one. *)
C6_NotifiesOncePerMutation ==
    /\ \A i \in 1..Len(calls) :
        /\ calls[i].fired <= 1
        /\ Finished(calls[i]) =>
                calls[i].fired = IF NothingToRemove(calls[i]) THEN 0 ELSE 1
    /\ notifyCount = FiredUpTo(Len(calls))

\* A call that wrote and notified, followed by a removal of something absent.
C6_Witness ==
    /\ Len(calls) = 2
    /\ AllFinished
    /\ calls[1].writes = 1 /\ calls[1].fired = 1
    /\ NothingToRemove(calls[2])
    /\ notifyCount = 1

----------------------------------------------------------------------------
(* C7: every mutation issued through a command handler of the extension
   refreshes the configuration tree exactly once. *)
C7_TreeRefreshedOnce ==
    \A i \in 1..Len(calls) :
        ( calls[i].entry = "ui" /\ Finished(calls[i]) ) => calls[i].refreshed = 1

----------------------------------------------------------------------------
(* C8: the snapshot carried by a change notification holds the settings that
   are persisted when the notification is delivered. *)
C8_SnapshotIsPersisted ==
    notifyCount > 0 => lastEvent.snapshot = lastEvent.persisted

----------------------------------------------------------------------------
(* C9: addPermission(bucket, pattern) called twice in a row leaves exactly one
   occurrence of the pattern in the bucket, and the permissions persisted after
   the second call are those persisted after the first. *)
C9_AddPermissionIdempotent ==
    \A i \in 1..Len(calls) :
        ( /\ i > 1
          /\ calls[i].op = "addPermission" /\ calls[i - 1].op = "addPermission"
          /\ calls[i].arg = calls[i - 1].arg
          /\ Finished(calls[i]) /\ Finished(calls[i - 1]) )
        => LET first == getPermissions(loadConfig(calls[i - 1].post.settingsFile))
               second == getPermissions(loadConfig(calls[i].post.settingsFile))
           IN  /\ Count(second[calls[i].arg.type], calls[i].arg.rule) = 1
               /\ second = first

----------------------------------------------------------------------------
(* C10: in every state reached through setPermissions, addPermission,
   removePermission and the Edit Permissions command, each permission bucket
   holds any pattern at most once. *)
C10_BucketsAreSets ==
    \A type \in Buckets : NoDuplicates(getPermissions(Settings)[type])

----------------------------------------------------------------------------
(* C11, C12 *)

\* The settings a call found persisted and the settings it left persisted.
Before(c) == loadConfig(c.pre.settingsFile)

After(c) == loadConfig(c.post.settingsFile)

\* The id of a deleteHook call resolves to a hook when the call starts.
Resolves(c) == HookResolves(getHooks(Before(c), c.arg.event), c.arg.hookId)

RemoveAt(s, k) == SubSeq(s, 1, k - 1) \o SubSeq(s, k + 1, Len(s))

\* The groups of a phase with one action of hook h taken out of the group of
\* h's matcher, and that group taken out if no action is left in it.
WithoutOneAction(matchers, h) ==
    LET g == FindIndex({ i \in 1..Len(matchers) : matchers[i].matcher = h.matcher })
        a == FindIndex({ j \in 1..Len(matchers[g].hooks) :
                            matchers[g].hooks[j].command = h.command })
        left == RemoveAt(matchers[g].hooks, a)
    IN  IF left = << >> THEN RemoveAt(matchers, g)
        ELSE [ matchers EXCEPT ![g].hooks = left ]

(* C11: a deleteHook whose id resolves to a hook removes exactly one action,
   that hook's, from the group that owns it, leaves every other action of every
   group in place, and removes the owning group exactly when no action is left
   in it. *)
C11_DeleteRemovesOneAction ==
    \A i \in 1..Len(calls) :
        LET c == calls[i] IN
        ( c.op = "deleteHook" /\ Finished(c) /\ Resolves(c) )
        => LET hooks == getHooks(Before(c), c.arg.event)
               h == hooks[FindIndex({ k \in 1..Len(hooks) : hooks[k].id = c.arg.hookId })]
           IN  After(c) = [ Before(c) EXCEPT
                              !.hooks[c.arg.event] = WithoutOneAction(@, h) ]

(* C12: a deleteHook whose id resolves to no hook of the phase writes nothing,
   raises no change notification and leaves the persisted settings as they
   were. *)
C12_DeleteUnresolvedIsNoOp ==
    \A i \in 1..Len(calls) :
        LET c == calls[i] IN
        ( c.op = "deleteHook" /\ ~Resolves(c) )
        => /\ c.writes = 0
           /\ c.fired = 0
           /\ c.status \in {"running", "ok"}
           /\ (IF Finished(c) THEN c.post ELSE Disk) = c.pre

\* A hook added, deleted, and deleted again by the same id: the action is gone
\* when the last call starts.
C12_Witness ==
    /\ Len(calls) = 3
    /\ AllFinished
    /\ calls[1].op = "addHook"
    /\ calls[2].op = "deleteHook" /\ calls[2].writes = 1
    /\ calls[3].op = "deleteHook" /\ calls[3].arg = calls[2].arg
    /\ ~Resolves(calls[3])
    /\ calls[3].pre.settingsFile.exists

----------------------------------------------------------------------------
(* C16 *)

\* Two hook mutations that both wrote, the second started before the first had
\* persisted.
Overlapped ==
    /\ Len(calls) = 2
    /\ AllFinished
    /\ calls[1].wroteAt > 0 /\ calls[2].wroteAt > 0
    /\ calls[2].pre = calls[1].pre

\* The documents a hook mutation can write from the settings it read when it
\* started; deleteHook resolves its id in a second read, which sees the
\* settings of `others`, the documents the overlapping call can have persisted.
Writes(c, others) ==
    IF c.op = "addHook"
    THEN { AddHookSettings(Before(c), c.arg.event, c.arg.matcher, c.arg.command) }
    ELSE { DeleteHookSettings(Before(c), getHooks(seen, c.arg.event),
                              c.arg.event, c.arg.hookId) :
             seen \in { d \in {Before(c)} \cup others :
                          HookResolves(getHooks(d, c.arg.event), c.arg.hookId) } }

(* C16: when two mutations of the settings document overlap, the document
   persisted after both have returned is the whole document of the call that
   wrote last, computed from the settings that call read, with nothing of the
   other call's change merged in. *)
C16_LastWriteWins ==
    Overlapped =>
        \E last, other \in 1..2 :
            /\ last # other
            /\ calls[last].wroteAt > calls[other].wroteAt
            /\ Settings \in Writes(calls[last], Writes(calls[other], {}))

\* Two overlapping addHook calls for different phases: the first writer's hook
\* is not in the persisted document.
C16_Witness ==
    /\ Overlapped
    /\ calls[1].op = "addHook" /\ calls[2].op = "addHook"
    /\ calls[1].arg.event # calls[2].arg.event
    /\ \E last, other \in 1..2 :
        /\ calls[last].wroteAt > calls[other].wroteAt
        /\ Settings.hooks[calls[other].arg.event] = Before(calls[other]).hooks[calls[other].arg.event]
        /\ Settings.hooks[calls[last].arg.event] # Before(calls[last]).hooks[calls[last].arg.event]

----------------------------------------------------------------------------
(* C17: the service keeps no configuration between calls: a read returns what
   is persisted when it is called, and a mutation starts from what is persisted
   when it is called, whatever was edited from outside since the last call. *)
C17_NoCache ==
    \A i \in 1..Len(calls) :
        LET c == calls[i] IN
        Finished(c) =>
            CASE c.op = "getHooks" -> c.result = getHooks(Before(c), c.arg.event)
              [] c.op = "addHook" ->
                    After(c) = AddHookSettings(Before(c), c.arg.event,
                                               c.arg.matcher, c.arg.command)
              [] c.op = "deleteHook" ->
                    After(c) = IF Resolves(c)
                               THEN DeleteHookSettings(Before(c),
                                        getHooks(Before(c), c.arg.event),
                                        c.arg.event, c.arg.hookId)
                               ELSE Before(c)
              [] OTHER -> TRUE

\* A hook is added, settings.json is edited, and a read returns the hooks of
\* the edited document, not those the service persisted.
C17_Witness ==
    /\ Len(calls) = 2
    /\ AllFinished
    /\ calls[1].op = "addHook" /\ calls[1].wroteAt = 1
    /\ calls[2].op = "getHooks"
    /\ calls[2].pre.settingsFile # calls[1].post.settingsFile
    /\ calls[2].result # << >>
    /\ calls[2].result # getHooks(After(calls[1]), calls[2].arg.event)

----------------------------------------------------------------------------
(* C18, C19 *)

\* The rule of the specification: lowercase, every character outside
\* [a-z0-9-] replaced by a hyphen, runs of hyphens collapsed to one.
CanonicalName(name) == CollapseHyphens(ReplaceDisallowed(toLowerCase(name)))

(* C18: each of the three normalizers is idempotent: normalizing a normalized
   name returns it unchanged. *)
C18_NormalizeIdempotent ==
    \A i \in 1..Len(calls) :
        calls[i].op = "normalize" =>
            Normalize(calls[i].arg.kind, calls[i].result) = calls[i].result

\* A command name with a leading slash, a capital and a run of characters to
\* replace, which normalization changes.
C18_Witness ==
    /\ Len(calls) = 1
    /\ calls[1].op = "normalize"
    /\ calls[1].arg.kind = "command"
    /\ calls[1].arg.name = << "/", "A", " " >>
    /\ calls[1].result = << "a", "-" >>

(* C19: the Command, Skill and Agent normalizers return the same name for every
   raw name: the lowercased name with every character outside [a-z0-9-]
   replaced by a hyphen and runs of hyphens collapsed to one. *)
C19_OneRuleForAllKinds ==
    \A i \in 1..Len(calls) :
        calls[i].op = "normalize" =>
            /\ calls[i].result = CanonicalName(calls[i].arg.name)
            /\ \A kind \in Kinds :
                Normalize(kind, calls[i].arg.name) = calls[i].result

----------------------------------------------------------------------------
(* C20: decoding the encoding of a Command, Skill or Agent record at the
   record's location gives back the record, field by field; a model of
   'inherit' is written without a model line and read back as 'inherit'. *)
C20_CodecRoundTrip ==
    \A i \in 1..Len(calls) :
        calls[i].op = "roundTrip" => calls[i].result = calls[i].arg.record

----------------------------------------------------------------------------
(* C14, C15: settings.json with absent fields, and malformed *)

\* The settings with every absent field present and empty.
Filled(settings) == [ settings EXCEPT !.absent = {} ]

\* What a mutation makes of a settings object that has every field.
Effect(op, arg, settings) ==
    CASE op = "addHook" ->
            AddHookSettings(settings, arg.event, arg.matcher, arg.command)
      [] op = "deleteHook" ->
            IF HookResolves(getHooks(settings, arg.event), arg.hookId)
            THEN DeleteHookSettings(settings, getHooks(settings, arg.event),
                                    arg.event, arg.hookId)
            ELSE settings
      [] op = "setPermissions" -> SetPermissionsSettings(settings, arg.permissions)
      [] op = "addPermission" -> AddPermissionSettings(settings, arg.type, arg.rule)
      [] op = "removePermission" -> RemovePermissionSettings(settings, arg.type, arg.rule)
      [] op = "addMcpServer" -> AddMcpServerSettings(settings, arg.id, arg.serverConfig)
      [] op = "removeMcpServer" ->
            IF HasMcpServer(settings, arg.id)
            THEN RemoveMcpServerSettings(settings, arg.id) ELSE settings
      [] OTHER -> settings

\* The call started from no settings.json, or from one that holds an object.
WellFormedBefore(c) ==
    ~c.pre.settingsFile.exists
        \/ (c.pre.settingsFile.parses /\ ~c.pre.settingsFile.doc.isNull)

Over(c) == c.status # "running"

\* C14: with no settings.json getSettings returns the default document, and
\* from a persisted object that lacks hooks, a hook phase, permissions, a
\* permission bucket or the servers, every read and every mutation completes
\* without throwing and does what it does on the object with those fields
\* present and empty.
C14_AbsentFieldsAreEmpty ==
    \A i \in 1..Len(calls) :
        LET c == calls[i]
        IN  Over(c) /\ WellFormedBefore(c) =>
                /\ c.status # "threw"
                /\ Filled(After(c)) = Effect(c.op, c.arg, Filled(Before(c)))
                /\ c.op = "getConfig" /\ ~c.pre.settingsFile.exists =>
                        c.result = createDefaultSettings

\* C15: from a settings.json that does not parse, or that parses to something
\* other than a settings object, getSettings returns the default document and
\* no read or mutation throws.
C15_MalformedReadsAsDefault ==
    \A i \in 1..Len(calls) :
        LET c == calls[i]
        IN  Over(c) /\ ~WellFormedBefore(c) =>
                /\ c.status # "threw"
                /\ c.op = "getConfig" => c.result = createDefaultSettings

----------------------------------------------------------------------------
(* C13: a persist step that fails *)

\* C13: a mutation whose write fails ends with that failure, having written
\* nothing else and notified nobody, and every read of the scope returns
\* afterwards what it returned before the call: the settings and the lists of
\* commands, skills and agents.
C13_FailedPersistLeavesNoTrace ==
    \A i \in 1..Len(calls) :
        LET c == calls[i]
        IN  c.status = "failed" =>
                /\ c.writes = 0
                /\ c.fired = 0
                /\ After(c) = Before(c)
                /\ \A kind \in Kinds :
                        ListArtifacts(kind, c.post) = ListArtifacts(kind, c.pre)

----------------------------------------------------------------------------
(* C21: the name of a decoded artifact *)

\* The header has a name key.
HasNameKey(text) == LinesOf(text.header, "name") # {}

\* C21: a decoded command is named after the stem of its file whatever its
\* header says; a decoded agent is named by the name key of its header if
\* there is one and after the stem of its file otherwise; a decoded skill is
\* named by the name key if there is one and after its directory otherwise.
C21_DecodedName ==
    \A i \in 1..Len(calls) :
        LET c == calls[i]
        IN  c.op = "decode" =>
                c.result.name =
                    IF c.arg.kind # "command" /\ HasNameKey(c.arg.text)
                    THEN Metadata(c.arg.text.header, "name")
                    ELSE c.arg.file

----------------------------------------------------------------------------
(* C22: the effective permissions *)

\* The patterns of s that are not in `seen`, each once, in their order.
RECURSIVE NewOnes(_, _)
NewOnes(s, seen) ==
    IF s = << >> THEN << >>
    ELSE IF Head(s) \in seen THEN NewOnes(Tail(s), seen)
    ELSE << Head(s) >> \o NewOnes(Tail(s), seen \cup { Head(s) })

\* C22: each bucket of the merged permissions holds the global patterns in
\* their order, then the project patterns that the global scope does not
\* have, no pattern twice; neither scope is written.
C22_MergedPermissions ==
    \A i \in 1..Len(calls) :
        LET c == calls[i]
        IN  c.op = "mergePermissions" =>
                /\ \A k \in Buckets :
                        LET global == c.arg.base[k]
                            project == IF k \in c.arg.overrideLacks THEN << >>
                                       ELSE c.arg.override[k]
                        IN  c.result[k] =
                                NewOnes(global, {}) \o NewOnes(project, SeqToSet(global))
                /\ c.post = c.pre
                /\ Disk = c.pre

\* Global allow ['A'] and project allow ['B'] merged into ['A', 'B'], beside a
\* deny bucket merged in the same way.
C22_Witness ==
    /\ Len(calls) = 1
    /\ calls[1].op = "mergePermissions"
    /\ calls[1].arg.overrideLacks = {}
    /\ calls[1].arg.base.allow = << "A" >>
    /\ calls[1].arg.override.allow = << "B" >>
    /\ calls[1].result.allow = << "A", "B" >>
    /\ calls[1].arg.base.deny = << "A" >>
    /\ calls[1].result.deny = << "A", "B" >>

----------------------------------------------------------------------------
(* C23: no active project *)

\* The call asks for the project scope, names no project, and the service has
\* no workspace folder.
NoActiveProject(c) ==
    /\ c.op \in StoreOperations
    /\ c.arg.scope = "project"
    /\ c.arg.projectPath = ""
    /\ c.arg.workspace = ""

----------------------------------------------------------------------------
(* C24: the lists skip what does not decode *)

\* The text has no header block, or one that is never closed.
HeaderMissingOrOpen(lines) ==
    \/ lines = << >>
    \/ lines[1] # Delimiter
    \/ ~\E j \in 2..Len(lines) : lines[j] = Delimiter

\* C24: a list returns the artifacts of its kind whose text decodes, each as
\* its decoder gives it; a file without a header block or without a closing
\* delimiter is left out, the call does not fail and the other files are
\* listed; a directory that does not exist gives the empty list.
C24_ListSkipsUndecodable ==
    \A i \in 1..Len(calls) :
        LET c == calls[i]
            files == FilesOf(c.arg.kind, c.pre)
        IN  c.op = "list" /\ Over(c) =>
                /\ c.status = "ok"
                /\ c.result = { Parse(c.arg.kind, files[f], f) :
                                  f \in { g \in DOMAIN files : files[g].framed } }
                /\ \A f \in DOMAIN files :
                        HeaderMissingOrOpen(files[f].lines) =>
                            ~\E a \in c.result : a.filePath = f
                /\ <<"b">> \in DOMAIN files =>
                        Parse(c.arg.kind, FromLines(StoreText), <<"b">>) \in c.result
                /\ ~c.arg.exists => c.result = {}
                /\ c.post = c.pre

\* A list that skipped a file whose header is never closed and returned the
\* file beside it.
C24_Witness ==
    /\ Len(calls) = 1
    /\ calls[1].op = "list" /\ calls[1].status = "ok"
    /\ calls[1].arg.kind = "skill"
    /\ DOMAIN skills = { <<"a">>, <<"b">> }
    /\ skills[<<"a">>].lines = << Delimiter, HeaderLine("description", <<"d">>), <<"c">> >>
    /\ Cardinality(calls[1].result) = 1

----------------------------------------------------------------------------
(* C25: update requires existence *)

\* C25: updateCommand with a name that no command of the scope has fails with
\* the error that says so, writes nothing and notifies nobody.
C25_UpdateRequiresExistence ==
    \A i \in 1..Len(calls) :
        LET c == calls[i]
        IN  c.op = "updateCommand" /\ Named(c, c.pre) = {} =>
                /\ c.status \in { "running", "threw" }
                /\ c.writes = 0 /\ c.fired = 0
                /\ (IF Over(c) THEN c.post ELSE Disk) = c.pre
                /\ Over(c) => c.result = "Command not found"

\* An update of a name that no command has, beside a command of another name.
C25_Witness ==
    /\ Len(calls) = 2
    /\ calls[1].op = "createCommand" /\ calls[1].status = "ok"
    /\ calls[2].op = "updateCommand" /\ calls[2].status = "threw"
    /\ Named(calls[2], calls[2].pre) = {}
    /\ DOMAIN commands # {}

----------------------------------------------------------------------------
(* C26: the identities of hooks *)

\* C26: two hooks of the persisted settings that differ in phase, matcher or
\* command have different identities (the identity starts with the phase, so
\* hooks of different phases are compared within each phase).
C26_IdentitiesUnambiguous ==
    \A event \in HookEvents :
        LET hooks == getHooks(Settings, event)
        IN  \A i, j \in 1..Len(hooks) :
                hooks[i].id = hooks[j].id =>
                    hooks[i].matcher = hooks[j].matcher /\ hooks[i].command = hooks[j].command

----------------------------------------------------------------------------
(* C27: the Hook that addHook returns *)

\* C27: the Hook an addHook call returned carries the identity under which
\* getHooks lists the hook the call added.
C27_ReturnedIdentityIsListed ==
    \A i \in 1..Len(calls) :
        LET c == calls[i]
            hooks == getHooks(After(c), c.arg.event)
        IN  c.op = "addHook" /\ Finished(c) =>
                \E k \in 1..Len(hooks) :
                    /\ hooks[k].id = c.result.id
                    /\ hooks[k].matcher = c.arg.matcher
                    /\ hooks[k].command = c.arg.command

----------------------------------------------------------------------------
(* C28: one subscription, to the current service *)

\* C28: whatever calls of setConfigService came before, a notification of the
\* service the provider holds refreshes the tree once and a notification of
\* another service does not refresh it.
C28_OneSubscription ==
    \A i \in 2..Len(calls) :
        LET c == calls[i]
        IN  c.op = "onConfigChanged" =>
                c.refreshed =
                    IF c.arg.service = calls[i - 1].result.configService THEN 1 ELSE 0

----------------------------------------------------------------------------
(* C29: the frame of a settings mutation *)

\* The matchers a hook call targets in the settings it starts from: the
\* matcher it is given, or the matchers of the listed hooks with the id.
TargetMatchers(c, before) ==
    IF c.op = "addHook" THEN { c.arg.matcher }
    ELSE LET hooks == getHooks(before, c.arg.event)
         IN  { hooks[i].matcher : i \in { j \in 1..Len(hooks) : hooks[j].id = c.arg.hookId } }

\* The groups of an event that a call does not target, in order.
OtherGroups(matchers, event, c, before) ==
    LET NotTargeted(group) ==
            ~(event = c.arg.event /\ group.matcher \in TargetMatchers(c, before))
    IN  SelectSeq(matchers, NotTargeted)

\* The servers other than the one a call names.
OtherServers(servers, id) ==
    [ other \in DOMAIN servers \ {id} |-> servers[other] ]

\* The values of the fields that call c does not target are the same in the
\* documents `before` and `after`; a key that is absent counts as empty.
SameFrame(c, before, after) ==
    /\ after.unknown = before.unknown
    /\ IF c.op \in {"addHook", "deleteHook"}
       THEN \A event \in HookEvents :
                OtherGroups(after.hooks[event], event, c, before)
                    = OtherGroups(before.hooks[event], event, c, before)
       ELSE after.hooks = before.hooks
    /\ CASE c.op \in {"addPermission", "removePermission"} ->
                \A type \in Buckets \ {c.arg.type} :
                    after.permissions[type] = before.permissions[type]
         [] c.op = "setPermissions" -> TRUE
         [] OTHER -> after.permissions = before.permissions
    /\ IF c.op \in {"addMcpServer", "removeMcpServer"}
       THEN OtherServers(after.mcpServers, c.arg.id)
                = OtherServers(before.mcpServers, c.arg.id)
       ELSE after.mcpServers = before.mcpServers

SettingsMutations ==
    { "addHook", "deleteHook", "addPermission", "removePermission", "setPermissions",
      "addMcpServer", "removeMcpServer" }

\* C29: a settings mutation that has returned left every field it does not
\* target as it was when the call started: the keys the store does not know,
\* the groups of other matchers and phases, the other buckets, the other
\* servers.
C29_MutationFrame ==
    \A i \in 1..Len(calls) :
        LET c == calls[i]
        IN  c.op \in SettingsMutations /\ c.status = "ok" /\ WellFormedBefore(c) =>
                SameFrame(c, loadConfig(c.pre.settingsFile), loadConfig(c.post.settingsFile))

----------------------------------------------------------------------------
(* C30: Edit Permissions and a mutation made while it waits *)

\* Call d added or removed a rule after Edit Permissions call c had read the
\* permissions and before c saved.
MutatedBetween(i, j) ==
    /\ j > i
    /\ calls[j].op \in {"addPermission", "removePermission"}
    /\ calls[j].status = "ok"
    /\ calls[j].wroteAt > 0
    /\ calls[j].wroteAt < calls[i].wroteAt

\* C30: once Edit Permissions has saved, a rule that another call added
\* between its read and its save is persisted, and a rule that another call
\* removed in between is not, unless it is the pattern entered.
C30_EditKeepsOtherMutations ==
    \A i, j \in 1..Len(calls) :
        LET c == calls[i]
            d == calls[j]
            saved == loadConfig(c.post.settingsFile).permissions
        IN  c.op = "editPermissions" /\ c.status = "ok" /\ c.wroteAt > 0
              /\ (\A k \in 1..Len(calls) : calls[k].wroteAt <= c.wroteAt)
              /\ MutatedBetween(i, j) =>
                IF d.op = "addPermission"
                THEN Includes(saved[d.arg.type], d.arg.rule)
                ELSE d.arg = c.arg \/ ~Includes(saved[d.arg.type], d.arg.rule)

=============================================================================
